---------------------------- MODULE Spec2Model ----------------------------
(***************************************************************************)
(* A model of the J1939 layer of socketcan-rs (src/src/j1939):             *)
(*   - the identifier codecs Pgn and Name (protocol.rs),                   *)
(*   - the socket address adapter J1939SockAddr (addr.rs),                 *)
(*   - the blocking socket J1939Socket<S> (socket.rs),                     *)
(*   - the option surface SocketOptions (options.rs), and                  *)
(*   - the asynchronous adapter AsyncJ1939Socket<S> (tokio.rs).            *)
(*                                                                         *)
(* Unsigned integers of up to 31 bits are TLA+ naturals.  A u64 does not   *)
(* fit TLC's integers, so a u64 is written as four 16-bit limbs, most      *)
(* significant first: 0x9704033501000004 is <<38660, 821, 256, 4>>.        *)
(* Bit containers (bitvec's Lsb0 view of a u32, and the BitArr!(for 64)    *)
(* inside Name) are functions from bit index to BOOLEAN.                   *)
(***************************************************************************)
EXTENDS Integers, Sequences, FiniteSets, TLC

VARIABLES
    pgn,        \* the Pgn value under test: the u32 inside Pgn(u32)
    pgnCall,    \* the last call made on it: operation, arguments, result
    name,       \* the Name value under test: its 64 bits
    nameCall,   \* the last call made on it
    nameOps,    \* the number of mutator calls since the Name was constructed
    sockaddr,   \* the J1939SockAddr under test: the bytes of its sockaddr_can
    addrCall,   \* the last call made on it
    socks,      \* the sockets: per handle, the socket value and its OS state
    call,       \* the last step of a call on a socket
    filter,     \* the J1939Filter under construction: its j1939_filter
    filterCall  \* the constructor that built it and what it was given

pgnVars == <<pgn, pgnCall>>
nameVars == <<name, nameCall, nameOps>>
addrVars == <<sockaddr, addrCall>>
sockVars == <<socks, call>>
filterVars == <<filter, filterCall>>

vars == <<pgnVars, nameVars, addrVars, sockVars, filterVars>>

\* What the calls on one component leave alone.
notPgn == <<nameVars, addrVars, sockVars, filterVars>>
notName == <<pgnVars, addrVars, sockVars, filterVars>>
notAddr == <<pgnVars, nameVars, sockVars, filterVars>>
notSock == <<pgnVars, nameVars, addrVars, filterVars>>
notFilter == <<pgnVars, nameVars, addrVars, sockVars>>

(***************************************************************************)
(* Bit containers (bitvec, Lsb0 order, little-endian load and store).      *)
(***************************************************************************)
Pow2(n) == 2 ^ n

\* Bit i of the natural number x.  Every integer of the model is below 2^31
\* (TLC's integers end there), so the bits from 31 on are clear.
BitOf(x, i) == IF i >= 31 THEN FALSE ELSE (x \div Pow2(i)) % 2 = 1

RECURSIVE BitAnd(_, _)
\* The bitwise and of two naturals (Rust's & on unsigned integers).
BitAnd(a, b) ==
    IF a = 0 \/ b = 0 THEN 0
    ELSE (a % 2) * (b % 2) + 2 * BitAnd(a \div 2, b \div 2)

\* u32::view_bits::<Lsb0>(): bit i of the view is bit i of the integer.
view_bits(x) == [i \in 0..31 |-> BitOf(x, i)]

RECURSIVE load_le(_, _, _)
\* bits[lo..hi].load_le(): the slice read as an unsigned integer, bit lo the
\* least significant.
load_le(bits, lo, hi) ==
    IF lo >= hi THEN 0
    ELSE (IF bits[lo] THEN 1 ELSE 0) + 2 * load_le(bits, lo + 1, hi)

\* bits[lo..hi].store_le(value): the slice takes the low hi-lo bits of value
\* (bitvec discards the bits of value that do not fit); the rest is kept.
store_le(bits, lo, hi, value) ==
    [i \in DOMAIN bits |->
        IF lo <= i /\ i < hi THEN BitOf(value, i - lo) ELSE bits[i]]

\* bits.replace(index, value): one bit is written, the rest is kept.
replace(bits, index, value) ==
    [i \in DOMAIN bits |-> IF i = index THEN value ELSE bits[i]]

\* The u32 a 32-bit view stands for (the view is a view of the integer itself).
u32_of_bits(bits) == load_le(bits, 0, 32)

(***************************************************************************)
(* libc constants used by protocol.rs.                                     *)
(***************************************************************************)
J1939_PGN_MAX == 262143                 \* 0x3FFFF
J1939_PGN_PDU1_MAX == 261888            \* 0x3FF00
J1939_NO_PGN == 262144                  \* 0x40000
J1939_PGN_REQUEST == 59904              \* 0x0EA00
J1939_PGN_ADDRESS_CLAIMED == 60928      \* 0x0EE00
J1939_PGN_ADDRESS_COMMANDED == 65240    \* 0x0FED8

(***************************************************************************)
(* Pgn (protocol.rs).  A Pgn is the u32 it wraps.                          *)
(***************************************************************************)
\* Pgn::from without the mask.
Pgn_from_unmasked(raw) == raw

Pgn_from(raw) == BitAnd(raw, J1939_PGN_MAX)

data_page(p) == view_bits(p)[16]

\* set_data_page writing bit 17.
set_data_page_at_17(p, value) == u32_of_bits(replace(view_bits(p), 17, value))

set_data_page(p, value) == u32_of_bits(replace(view_bits(p), 16, value))

pdu_format(p) == load_le(view_bits(p), 8, 16)

\* set_pdu_format writing one bit too high (bits 9..17).
set_pdu_format_shifted(p, value) ==
    u32_of_bits(store_le(view_bits(p), 9, 17, value))

set_pdu_format(p, value) == u32_of_bits(store_le(view_bits(p), 8, 16, value))

pdu_specific(p) == load_le(view_bits(p), 0, 8)

set_pdu_specific(p, value) == u32_of_bits(store_le(view_bits(p), 0, 8, value))

Pgn_new(dp, pf, ps) ==
    set_pdu_specific(set_pdu_format(set_data_page(0, dp), pf), ps)

\* is_pdu1 with the boundary one too low.
is_pdu1_below_239(p) == pdu_format(p) < 239

is_pdu1(p) == pdu_format(p) <= 239

is_pdu2(p) == pdu_format(p) >= 240

\* u32::to_le_bytes / u32::from_le_bytes: byte k is bits 8k..8k+7.
u32_to_le_bytes(x) == [k \in 1..4 |-> (x \div Pow2(8 * (k - 1))) % 256]

u32_from_le_bytes(buf) ==
    buf[1] + 256 * buf[2] + 65536 * buf[3] + 16777216 * buf[4]

Pgn_to_le_bytes(p) == SubSeq(u32_to_le_bytes(p), 1, 3)

Pgn_from_le_bytes(buf) == Pgn_from(u32_from_le_bytes(buf \o <<0>>))

\* impl From<Pgn> for u32: the form handed to the kernel.
u32_from_Pgn(p) == IF is_pdu1(p) THEN BitAnd(p, J1939_PGN_PDU1_MAX) ELSE p

NO_PGN == Pgn_from(J1939_NO_PGN)
ADDRESS_CLAIMED == Pgn_from(J1939_PGN_ADDRESS_CLAIMED)
PGN_REQUEST == Pgn_from(J1939_PGN_REQUEST)
ADDRESS_COMMANDED == Pgn_from(J1939_PGN_ADDRESS_COMMANDED)


(***************************************************************************)
(* Calls on a Pgn.  Byte arguments are drawn from values on both sides of  *)
(* the PDU1/PDU2 boundary (239/240) and from the PGNs the crate names; a   *)
(* raw u32 is hi * 2^16 + pdu_format * 2^8 + pdu_specific, where hi ranges *)
(* over 0..MaxHighBits (the data page bit, the reserved bit and bits above *)
(* the 18 a PGN has) and 255.                                              *)
(***************************************************************************)
MaxHighBits == 7

PduFormats == {0, 238, 239, 240, 255}
PduSpecifics == {0, 4, 255}
HighBytes == (0..MaxHighBits) \cup {255}

RawPgns ==
    {hi * 65536 + pf * 256 + ps :
        hi \in 0..MaxHighBits, pf \in PduFormats, ps \in PduSpecifics}
        \cup {J1939_NO_PGN}

PgnConstants == {NO_PGN, ADDRESS_CLAIMED, PGN_REQUEST, ADDRESS_COMMANDED}

\* A record of one call: the operation, the Pgn it was made on (0 for a
\* constructor, which is made on none), its arguments (flag, a, b, c) and, for
\* a conversion, its result (out).
PgnCallRec(op, before, flag, a, b, c, out) ==
    [op |-> op, before |-> before, flag |-> flag, a |-> a, b |-> b, c |-> c,
     out |-> out]

PgnIdle ==
    /\ pgn = NO_PGN
    /\ pgnCall = PgnCallRec("const", 0, FALSE, 0, 0, 0, 0)

PgnInit ==
    /\ pgn \in PgnConstants
    /\ pgnCall = PgnCallRec("const", 0, FALSE, 0, 0, 0, 0)

PgnFrom ==
    \E raw \in RawPgns :
        /\ UNCHANGED notPgn
        /\ pgn' = Pgn_from(raw)
        /\ pgnCall' = PgnCallRec("from", 0, FALSE, raw, 0, 0, 0)

PgnNew ==
    \E dp \in BOOLEAN, pf \in PduFormats, ps \in PduSpecifics :
        /\ UNCHANGED notPgn
        /\ pgn' = Pgn_new(dp, pf, ps)
        /\ pgnCall' = PgnCallRec("new", 0, dp, pf, ps, 0, 0)

PgnFromLeBytes ==
    \E b0 \in PduSpecifics, b1 \in PduFormats, b2 \in HighBytes :
        /\ UNCHANGED notPgn
        /\ pgn' = Pgn_from_le_bytes(<<b0, b1, b2>>)
        /\ pgnCall' = PgnCallRec("from_le_bytes", 0, FALSE, b0, b1, b2, 0)

PgnSetDataPage ==
    \E value \in BOOLEAN :
        /\ UNCHANGED notPgn
        /\ pgn' = set_data_page(pgn, value)
        /\ pgnCall' = PgnCallRec("set_data_page", pgn, value, 0, 0, 0, 0)

PgnSetPduFormat ==
    \E value \in PduFormats :
        /\ UNCHANGED notPgn
        /\ pgn' = set_pdu_format(pgn, value)
        /\ pgnCall' = PgnCallRec("set_pdu_format", pgn, FALSE, value, 0, 0, 0)

PgnSetPduSpecific ==
    \E value \in PduSpecifics :
        /\ UNCHANGED notPgn
        /\ pgn' = set_pdu_specific(pgn, value)
        /\ pgnCall' = PgnCallRec("set_pdu_specific", pgn, FALSE, value, 0, 0, 0)

\* u32::from(pgn): the Pgn is left as it is, the wire form is the result.
PgnIntoU32 ==
    /\ UNCHANGED notPgn
    /\ pgn' = pgn
    /\ pgnCall' = PgnCallRec("into_u32", pgn, FALSE, 0, 0, 0, u32_from_Pgn(pgn))

\* pgn.to_le_bytes(): the Pgn is left as it is, the three bytes are recorded
\* in a, b, c.
PgnToLeBytes ==
    /\ UNCHANGED notPgn
    /\ pgn' = pgn
    /\ pgnCall' = LET buf == Pgn_to_le_bytes(pgn)
                  IN  PgnCallRec("to_le_bytes", pgn, FALSE,
                                 buf[1], buf[2], buf[3], 0)

\* Pgn::new(pgn.data_page(), pgn.pdu_format(), pgn.pdu_specific()): the Pgn
\* built again from what its three accessors return.
PgnRebuild ==
    /\ UNCHANGED notPgn
    /\ pgn' = Pgn_new(data_page(pgn), pdu_format(pgn), pdu_specific(pgn))
    /\ pgnCall' = PgnCallRec("rebuild", pgn, data_page(pgn), pdu_format(pgn),
                             pdu_specific(pgn), 0, 0)

PgnNext ==
    \/ PgnRebuild
    \/ PgnFrom
    \/ PgnNew
    \/ PgnFromLeBytes
    \/ PgnSetDataPage
    \/ PgnSetPduFormat
    \/ PgnSetPduSpecific
    \/ PgnIntoU32
    \/ PgnToLeBytes

(***************************************************************************)
(* Name (protocol.rs).  A Name is the 64 bits of its BitArr!(for 64).      *)
(***************************************************************************)
\* Bit i of a u64 given as four 16-bit limbs, most significant first.
u64_bit(value, i) == BitOf(value[4 - (i \div 16)], i % 16)

\* The u64 that 64 bits stand for, as limbs.
u64_of_bits(bits) ==
    <<load_le(bits, 48, 64), load_le(bits, 32, 48),
      load_le(bits, 16, 32), load_le(bits, 0, 16)>>

\* u64::to_le_bytes.
u64_to_le_bytes(value) ==
    [k \in 1..8 |->
        LET limb == value[4 - ((k - 1) \div 2)]
        IN  IF k % 2 = 1 THEN limb % 256 ELSE limb \div 256]

NO_NAME == [i \in 0..63 |-> FALSE]

\* impl From<u64> for Name: name.0.store(value) on a zeroed array.  On the
\* little-endian targets the crate builds for, store is store_le.
Name_from(value) == [i \in 0..63 |-> u64_bit(value, i)]

\* impl From<Name> for u64: name.0.load_le().
u64_from_Name(n) == u64_of_bits(n)

\* to_le_bytes with the bytes in the opposite order.
Name_to_be_bytes(n) ==
    LET bytes == u64_to_le_bytes(u64_of_bits(n))
    IN  [k \in 1..8 |-> bytes[9 - k]]

\* Name::to_le_bytes: self.0.load::<u64>().to_le_bytes().
Name_to_le_bytes(n) == u64_to_le_bytes(u64_of_bits(n))

arbitrary_address_capable(n) == n[63]
set_arbitrary_address_capable(n, val) == replace(n, 63, val)

industry_group(n) == load_le(n, 60, 63)

\* set_industry_group writing four bits, not three.
set_industry_group_wide(n, value) == store_le(n, 60, 64, value)

set_industry_group(n, value) == store_le(n, 60, 63, value)

vehicle_system_instance(n) == load_le(n, 56, 60)
set_vehicle_system_instance(n, value) == store_le(n, 56, 60, value)

\* vehicle_system reading the reserved bit 48 as well.
vehicle_system_from_48(n) == load_le(n, 48, 56)

vehicle_system(n) == load_le(n, 49, 56)
set_vehicle_system(n, value) == store_le(n, 49, 56, value)

function(n) == load_le(n, 40, 48)
set_function(n, value) == store_le(n, 40, 48, value)

function_instance(n) == load_le(n, 35, 40)
set_function_instance(n, value) == store_le(n, 35, 40, value)

ecu_instance(n) == load_le(n, 32, 35)
set_ecu_instance(n, value) == store_le(n, 32, 35, value)

manufacturer_code(n) == load_le(n, 21, 32)
set_manufacturer_code(n, value) == store_le(n, 21, 32, value)

identity_number(n) == load_le(n, 0, 21)
set_identity_number(n, value) == store_le(n, 0, 21, value)

(***************************************************************************)
(* Calls on a Name.  A u64 input is one of a few bit patterns (none, the   *)
(* value of the crate's tests, all ones, alternating bits); a mutator's    *)
(* argument is zero, a value that fills its field, or a value with bits    *)
(* beyond the field.  At most MaxNameOps mutators follow a construction.   *)
(***************************************************************************)
MaxNameOps == 2

U64Samples ==
    { <<0, 0, 0, 0>>,
      <<38660, 821, 256, 4>>,               \* 0x9704033501000004
      <<65535, 65535, 65535, 65535>>,       \* 0xFFFFFFFFFFFFFFFF
      <<21845, 21845, 21845, 21845>>,       \* 0x5555555555555555
      <<291, 17767, 35243, 52719>> }        \* 0x0123456789ABCDEF

U8Samples == {0, 85, 255}
U16Samples == {0, 2047, 43690}              \* 0, 0x07FF, 0xAAAA
U32Samples == {0, 2097151, 1431655765}      \* 0, 0x1FFFFF, 0x55555555

\* A record of one call: the operation, the Name it was made on (NO_NAME
\* for a constructor), its argument (flag or a; value for a u64).
NameCallRec(op, before, flag, a, value) ==
    [op |-> op, before |-> before, flag |-> flag, a |-> a, value |-> value]

NameIdle ==
    /\ name = NO_NAME
    /\ nameCall = NameCallRec("const", NO_NAME, FALSE, 0, <<0, 0, 0, 0>>)
    /\ nameOps = 0

NameInit == NameIdle

NameFrom ==
    \E value \in U64Samples :
        /\ UNCHANGED notName
        /\ name' = Name_from(value)
        /\ nameCall' = NameCallRec("from", NO_NAME, FALSE, 0, value)
        /\ nameOps' = 0

\* One mutator call: the Name becomes after, and the call is recorded.
NameMutate(op, after, flag, a) ==
    /\ nameOps < MaxNameOps
    /\ UNCHANGED notName
    /\ name' = after
    /\ nameCall' = NameCallRec(op, name, flag, a, <<0, 0, 0, 0>>)
    /\ nameOps' = nameOps + 1

NameSetArbitraryAddressCapable ==
    \E val \in BOOLEAN :
        NameMutate("set_arbitrary_address_capable",
                   set_arbitrary_address_capable(name, val), val, 0)

NameSetIndustryGroup ==
    \E value \in U8Samples :
        NameMutate("set_industry_group",
                   set_industry_group(name, value), FALSE, value)

NameSetVehicleSystemInstance ==
    \E value \in U8Samples :
        NameMutate("set_vehicle_system_instance",
                   set_vehicle_system_instance(name, value), FALSE, value)

NameSetVehicleSystem ==
    \E value \in U8Samples :
        NameMutate("set_vehicle_system",
                   set_vehicle_system(name, value), FALSE, value)

NameSetFunction ==
    \E value \in U8Samples :
        NameMutate("set_function", set_function(name, value), FALSE, value)

NameSetFunctionInstance ==
    \E value \in U8Samples :
        NameMutate("set_function_instance",
                   set_function_instance(name, value), FALSE, value)

NameSetEcuInstance ==
    \E value \in U8Samples :
        NameMutate("set_ecu_instance",
                   set_ecu_instance(name, value), FALSE, value)

NameSetManufacturerCode ==
    \E value \in U16Samples :
        NameMutate("set_manufacturer_code",
                   set_manufacturer_code(name, value), FALSE, value)

NameSetIdentityNumber ==
    \E value \in U32Samples :
        NameMutate("set_identity_number",
                   set_identity_number(name, value), FALSE, value)

\* u64::from(name): the Name is left as it is, the u64 is the result.
NameIntoU64 ==
    /\ UNCHANGED notName
    /\ name' = name
    /\ nameCall' = NameCallRec("into_u64", name, FALSE, 0, u64_from_Name(name))
    /\ nameOps' = nameOps

\* name.to_le_bytes(): the Name is left as it is, the bytes are the result.
NameToLeBytes ==
    /\ UNCHANGED notName
    /\ name' = name
    /\ nameCall' = NameCallRec("to_le_bytes", name, FALSE, 0,
                               Name_to_le_bytes(name))
    /\ nameOps' = nameOps

NameNext ==
    \/ NameFrom
    \/ NameToLeBytes
    \/ NameSetArbitraryAddressCapable
    \/ NameSetIndustryGroup
    \/ NameSetVehicleSystemInstance
    \/ NameSetVehicleSystem
    \/ NameSetFunction
    \/ NameSetFunctionInstance
    \/ NameSetEcuInstance
    \/ NameSetManufacturerCode
    \/ NameSetIdentityNumber
    \/ NameIntoU64

(***************************************************************************)
(* J1939SockAddr (addr.rs).  A J1939SockAddr is the memory of the          *)
(* sockaddr_can it wraps, a sequence of bytes in libc's layout for Linux:  *)
(* can_family (u16) at 0, can_ifindex (c_int) at 4 and, in the can_addr    *)
(* union at 8, j1939.name (u64) at 8, j1939.pgn (u32) at 16 and j1939.addr *)
(* (u8) at 20; integers are stored little-endian.  A SockAddr is a         *)
(* sockaddr_storage (its memory) with a length.                            *)
(***************************************************************************)
AF_CAN == 29
SockaddrCanSize == 24           \* size_of::<sockaddr_can>()
SockaddrStorageSize == 128      \* size_of::<sockaddr_storage>()
J1939_NO_ADDR == 255
J1939_IDLE_ADDR == 254
J1939_NO_NAME == <<0, 0, 0, 0>>

\* mem::zeroed(): n zero bytes.
zeroed(n) == [i \in 1..n |-> 0]

\* The n bytes of mem from offset off on.
read_bytes(mem, off, n) == SubSeq(mem, off + 1, off + n)

\* mem with bytes written from offset off on.
write_bytes(mem, off, bytes) ==
    [i \in 1..Len(mem) |->
        IF off < i /\ i <= off + Len(bytes) THEN bytes[i - off] ELSE mem[i]]

u16_to_le_bytes(x) == <<x % 256, x \div 256>>
u16_from_le_bytes(buf) == buf[1] + 256 * buf[2]

u64_from_le_bytes(buf) ==
    <<buf[7] + 256 * buf[8], buf[5] + 256 * buf[6],
      buf[3] + 256 * buf[4], buf[1] + 256 * buf[2]>>

\* The fields of a sockaddr_can.
can_family(a) == u16_from_le_bytes(read_bytes(a, 0, 2))
can_ifindex(a) == u32_from_le_bytes(read_bytes(a, 4, 4))
j1939_name(a) == u64_from_le_bytes(read_bytes(a, 8, 8))
j1939_pgn(a) == u32_from_le_bytes(read_bytes(a, 16, 4))
j1939_addr(a) == a[21]

\* impl From<Addr> for u8 and impl From<u8> for Addr: Addr wraps the u8.
u8_from_Addr(addr) == addr
Addr_from(value) == value
NO_ADDR == J1939_NO_ADDR
IDLE_ADDR == J1939_IDLE_ADDR

\* A default that stops after the family tag: the union left zeroed.
J1939SockAddr_default_zeroed ==
    write_bytes(zeroed(SockaddrCanSize), 0, u16_to_le_bytes(AF_CAN))

\* impl Default for J1939SockAddr: zeroed memory, the family tag, and the
\* j1939 member of the union set to the kernel's "unset" values.
J1939SockAddr_default ==
    LET a0 == zeroed(SockaddrCanSize)
        a1 == write_bytes(a0, 0, u16_to_le_bytes(AF_CAN))
        a2 == write_bytes(a1, 8, u64_to_le_bytes(J1939_NO_NAME))
        a3 == write_bytes(a2, 16, u32_to_le_bytes(J1939_NO_PGN))
    IN  write_bytes(a3, 20, <<J1939_NO_ADDR>>)

J1939SockAddr_set_name(a, n) ==
    write_bytes(a, 8, u64_to_le_bytes(u64_from_Name(n)))

J1939SockAddr_set_pgn(a, p) ==
    write_bytes(a, 16, u32_to_le_bytes(u32_from_Pgn(p)))

\* set_addr writing the address into the first byte of the PGN field.
J1939SockAddr_set_addr_at_pgn(a, addr) ==
    write_bytes(a, 16, <<u8_from_Addr(addr)>>)

J1939SockAddr_set_addr(a, addr) == write_bytes(a, 20, <<u8_from_Addr(addr)>>)

J1939SockAddr_new(ifindex) ==
    write_bytes(J1939SockAddr_default, 4, u32_to_le_bytes(ifindex))

J1939SockAddr_from_parts(ifindex, n, p, addr) ==
    J1939SockAddr_set_addr(
        J1939SockAddr_set_pgn(
            J1939SockAddr_set_name(J1939SockAddr_new(ifindex), n), p), addr)

J1939SockAddr_name(a) == Name_from(j1939_name(a))
J1939SockAddr_pgn(a) == Pgn_from(j1939_pgn(a))
J1939SockAddr_addr(a) == Addr_from(j1939_addr(a))

\* impl PartialEq for J1939SockAddr: the family tag, the interface index
\* and what the three getters return are compared.
J1939SockAddr_eq(a, other) ==
    /\ can_family(a) = can_family(other)
    /\ can_ifindex(a) = can_ifindex(other)
    /\ J1939SockAddr_name(a) = J1939SockAddr_name(other)
    /\ J1939SockAddr_pgn(a) = J1939SockAddr_pgn(other)
    /\ J1939SockAddr_addr(a) = J1939SockAddr_addr(other)

\* as_bytes: the memory itself.
as_bytes(a) == a

\* into_storage reporting the length of the container, not of the address.
into_storage_whole(a) ==
    [storage |-> write_bytes(zeroed(SockaddrStorageSize), 0, as_bytes(a)),
     len |-> SockaddrStorageSize]

into_storage(a) ==
    LET can_addr == as_bytes(a)
        len == Len(can_addr)
    IN  [storage |-> write_bytes(zeroed(SockaddrStorageSize), 0, can_addr),
         len |-> len]

\* impl From<J1939SockAddr> for SockAddr.
SockAddr_from(a) == into_storage(a)

\* sockaddr_storage.ss_family.
ss_family(storage) == u16_from_le_bytes(read_bytes(storage, 0, 2))

\* The family check of try_from comparing against the wrong family (AF_INET).
J1939SockAddr_try_from_inet(sa) ==
    IF ss_family(sa.storage) # 2
        THEN [ok |-> FALSE, err |-> "InvalidAddressFamily", addr |-> <<>>]
        ELSE [ok |-> TRUE, err |-> "",
              addr |-> read_bytes(sa.storage, 0, SockaddrCanSize)]

\* impl TryFrom<SockAddr> for J1939SockAddr: the result, with the address
\* the leading bytes of the storage when the family is AF_CAN.
J1939SockAddr_try_from(sa) ==
    IF ss_family(sa.storage) # AF_CAN
        THEN [ok |-> FALSE, err |-> "InvalidAddressFamily", addr |-> <<>>]
        ELSE [ok |-> TRUE, err |-> "",
              addr |-> read_bytes(sa.storage, 0, SockaddrCanSize)]

(***************************************************************************)
(* Calls on a J1939SockAddr.  Addresses are built from a few interface     *)
(* indices, NAMEs, PGNs (PDU1 with a non-zero low byte, PDU2, none) and    *)
(* addresses.  A container to decode is the encoding of such an address    *)
(* with its family tag as it is or overwritten by another family:          *)
(* AF_UNSPEC, AF_UNIX, AF_INET, AF_INET6, and two tags that differ from    *)
(* AF_CAN in the high byte only or by byte order.                         *)
(***************************************************************************)
IfIndices == {0, 3}
AddrNames == {<<0, 0, 0, 0>>, <<38660, 821, 256, 4>>}
AddrPgns == {0, 8703, 126980}           \* none, 0x21FF (PDU1), 0x1F004 (PDU2)
AddrAddrs == {2, 254, 255}
ForeignFamilies == {0, 1, 2, 10, 285, 7424}

AddrSamples ==
    {J1939SockAddr_from_parts(i, Name_from(n), Pgn_from(p), Addr_from(a)) :
        i \in IfIndices, n \in AddrNames, p \in AddrPgns, a \in AddrAddrs}
        \cup {J1939SockAddr_new(i) : i \in IfIndices}

\* The container of address a with the family tag f.
Container(a, f) ==
    LET sa == SockAddr_from(a)
    IN  [storage |-> write_bytes(sa.storage, 0, u16_to_le_bytes(f)),
         len |-> sa.len]

Containers(a) == {Container(a, f) : f \in ForeignFamilies \cup {AF_CAN}}

\* A record of one call: the operation, the address it was made on, the
\* container decoded (try_from), the result (ok, err) and the arguments of
\* a constructor or setter (ifindex, name as a u64, pgn, addr; 0 where the
\* call takes none) or of a comparison (other; ok is its result).
AddrCallRec(op, before, container, ok, err) ==
    [op |-> op, before |-> before, container |-> container, ok |-> ok,
     err |-> err, ifindex |-> 0, name |-> <<0, 0, 0, 0>>, pgn |-> 0,
     addr |-> 0, other |-> <<>>]

NoContainer == [storage |-> <<>>, len |-> 0]

AddrIdle ==
    /\ sockaddr = J1939SockAddr_default
    /\ addrCall = AddrCallRec("default", <<>>, NoContainer, TRUE, "")

AddrNew ==
    \E i \in IfIndices :
        /\ UNCHANGED notAddr
        /\ sockaddr' = J1939SockAddr_new(i)
        /\ addrCall' = [AddrCallRec("new", <<>>, NoContainer, TRUE, "")
                           EXCEPT !.ifindex = i]

AddrFromParts ==
    \E i \in IfIndices, n \in AddrNames, p \in AddrPgns, a \in AddrAddrs :
        /\ UNCHANGED notAddr
        /\ sockaddr' =
              J1939SockAddr_from_parts(i, Name_from(n), Pgn_from(p), Addr_from(a))
        /\ addrCall' = [AddrCallRec("from_parts", <<>>, NoContainer, TRUE, "")
                           EXCEPT !.ifindex = i, !.name = n,
                                  !.pgn = Pgn_from(p), !.addr = Addr_from(a)]

AddrSetName ==
    \E n \in AddrNames :
        /\ UNCHANGED notAddr
        /\ sockaddr' = J1939SockAddr_set_name(sockaddr, Name_from(n))
        /\ addrCall' = [AddrCallRec("set_name", sockaddr, NoContainer, TRUE, "")
                           EXCEPT !.name = n]

AddrSetPgn ==
    \E p \in AddrPgns :
        /\ UNCHANGED notAddr
        /\ sockaddr' = J1939SockAddr_set_pgn(sockaddr, Pgn_from(p))
        /\ addrCall' = [AddrCallRec("set_pgn", sockaddr, NoContainer, TRUE, "")
                           EXCEPT !.pgn = Pgn_from(p)]

AddrSetAddr ==
    \E a \in AddrAddrs :
        /\ UNCHANGED notAddr
        /\ sockaddr' = J1939SockAddr_set_addr(sockaddr, Addr_from(a))
        /\ addrCall' = [AddrCallRec("set_addr", sockaddr, NoContainer, TRUE, "")
                           EXCEPT !.addr = Addr_from(a)]

\* J1939SockAddr::try_from(container): on success the decoded address is the
\* value held from now on; on failure there is no new value.
AddrTryFrom ==
    \E c \in Containers(sockaddr) :
        LET r == J1939SockAddr_try_from(c)
        IN  /\ UNCHANGED notAddr
            /\ sockaddr' = IF r.ok THEN r.addr ELSE sockaddr
            /\ addrCall' = AddrCallRec("try_from", sockaddr, c, r.ok, r.err)

\* SockAddr::from(sockaddr): the address is left as it is, the container is
\* recorded.
AddrIntoSockAddr ==
    /\ UNCHANGED notAddr
    /\ sockaddr' = sockaddr
    /\ addrCall' = AddrCallRec("into", sockaddr, SockAddr_from(sockaddr), TRUE, "")

\* sockaddr == other, for another address.
AddrEq ==
    \E other \in AddrSamples :
        /\ UNCHANGED notAddr
        /\ sockaddr' = sockaddr
        /\ addrCall' = [AddrCallRec("eq", sockaddr, NoContainer,
                                    J1939SockAddr_eq(sockaddr, other), "")
                           EXCEPT !.other = other]

AddrNext ==
    \/ AddrEq
    \/ AddrIntoSockAddr
    \/ AddrNew
    \/ AddrFromParts
    \/ AddrSetName
    \/ AddrSetPgn
    \/ AddrSetAddr
    \/ AddrTryFrom

(***************************************************************************)
(* Sockets (socket.rs, tokio.rs, options.rs).                              *)
(*                                                                         *)
(* A handle s is a slot for one socket value.  Its link is the type state: *)
(* "Unopened" (no value yet), "Unlinked" (J1939Socket<Unlinked>), "Linked" *)
(* (J1939Socket<Linked>) or "Dropped" (the value was consumed or dropped   *)
(* and its descriptor closed).  Its flavor says whether the value is a     *)
(* J1939Socket ("blocking") or an AsyncJ1939Socket ("async").              *)
(*                                                                         *)
(* The operating system is the environment: every system call ends with    *)
(* success or with one of a few errno values, chosen by the environment.   *)
(* EAGAIN is a possible end of a data transfer only on a descriptor that   *)
(* is non-blocking or has the matching timeout set.                        *)
(***************************************************************************)
\* Handles share no state: every action on a handle s reads and writes
\* socks[s] and the record of the last step only.
MaxSockets == 1

Sockets == 1..MaxSockets

OsErrors == {"EACCES", "ENETDOWN"}

\* std::io::Error::kind() of an OS error.
ErrorKind(errno) ==
    CASE errno = "EAGAIN" -> "WouldBlock"
      [] errno = "EACCES" -> "PermissionDenied"
      [] errno = "ENETDOWN" -> "NetworkDown"
      [] OTHER -> "Uncategorized"

\* IoResult values: Ok with a byte count and a source address (0 and <<>>
\* where the operation returns none), Err(last_os_error), Err(other(msg)).
IoOk(n, src) ==
    [ok |-> TRUE, errno |-> "", kind |-> "", msg |-> "", n |-> n, src |-> src,
     val |-> <<>>]

\* Ok(val) of an option getter.
IoOkVal(v) == [IoOk(0, <<>>) EXCEPT !.val = v]

IoOsError(errno) ==
    [ok |-> FALSE, errno |-> errno, kind |-> ErrorKind(errno), msg |-> "",
     n |-> 0, src |-> <<>>, val |-> <<>>]

IoError_other(msg) ==
    [ok |-> FALSE, errno |-> "", kind |-> "Other", msg |-> msg, n |-> 0,
     src |-> <<>>, val |-> <<>>]

NoResult ==
    [ok |-> FALSE, errno |-> "", kind |-> "", msg |-> "", n |-> 0, src |-> <<>>,
     val |-> <<>>]

\* The kernel's options of a socket: the SOL_SOCKET options SO_REUSEADDR,
\* SO_BROADCAST, SO_RCVTIMEO and SO_SNDTIMEO (in microseconds, 0 for none)
\* and the SOL_CAN_J1939 option SO_J1939_PROMISC.
DefaultOpts ==
    [reuseaddr |-> FALSE, broadcast |-> FALSE, rcvtimeo |-> 0, sndtimeo |-> 0,
     j1939_promisc |-> FALSE]

\* A slot before open.  fd is the descriptor the socket value owns (0 for
\* none), regs the number of registrations of that descriptor with the
\* reactor.
Unopened ==
    [flavor |-> "none", link |-> "Unopened", connected |-> FALSE,
     nonblock |-> FALSE, opts |-> DefaultOpts, ready_r |-> FALSE,
     ready_w |-> FALSE, pending |-> "none", fd |-> 0, regs |-> 0]

\* The descriptor socket(2) returns for slot s: descriptors 0 to 2 are taken.
Fd(s) == s + 2

\* A failed connect that leaves the socket as it was.
Dropped_kept(sock) == sock

\* A slot after its value is gone: the descriptor is closed, and with it the
\* readiness registration.
Dropped(sock) ==
    [Unopened EXCEPT !.link = "Dropped", !.connected = sock.connected]

Live(s) == socks[s].link \in {"Unlinked", "Linked"}
IsBlocking(s) == Live(s) /\ socks[s].flavor = "blocking"
IsAsync(s) == Live(s) /\ socks[s].flavor = "async"
Idle(s) == socks[s].pending = "none"

NoSockAddr == [storage |-> <<>>, len |-> 0]

\* The arguments of a setsockopt(2) or getsockopt(2) call: level, name, whether
\* the value pointer is null, the values it points to, and the length.
OptArgs(level, optname, null, data, len) ==
    [level |-> level, name |-> optname, null |-> null, data |-> data,
     len |-> len]

\* One step on a socket: the handle, the operation, the link state it was
\* made in, the value passed to an option setter (arg), the system calls it
\* made (sys), the arguments of each setsockopt or getsockopt among them
\* (opt), how the last system call ended (os: "ok" or an errno, "" if none
\* was made), the address container the OS returned (osaddr), what the call
\* returned (result) and whether it returned ("returned") or is suspended
\* ("suspended", an asynchronous call).
OptCallRec(s, op, arg, sys, opt, os, osaddr, result, phase) ==
    [sock |-> s, op |-> op, flavor |-> socks[s].flavor,
     linkBefore |-> socks[s].link, arg |-> arg, sys |-> sys, opt |-> opt,
     os |-> os, osaddr |-> osaddr, result |-> result, phase |-> phase]

CallRec(s, op, sys, os, osaddr, result, phase) ==
    OptCallRec(s, op, <<>>, sys, <<>>, os, osaddr, result, phase)

SockIdle ==
    /\ socks = [s \in Sockets |-> Unopened]
    /\ call = [sock |-> 0, op |-> "none", flavor |-> "none",
               linkBefore |-> "Unopened", arg |-> <<>>, sys |-> <<>>,
               opt |-> <<>>, os |-> "",
               osaddr |-> NoSockAddr, result |-> NoResult, phase |-> "returned"]

\* Addresses to bind to, connect to and send to.
PeerAddrs ==
    {J1939SockAddr_from_parts(3, Name_from(<<0, 0, 0, 0>>), Pgn_from(126980),
                              Addr_from(2)),
     J1939SockAddr_new(3)}

BufLens == {8, 20}              \* one frame, and more than one frame
DatagramLens == {3, 20}

\* How a sequence of system calls can end: all succeed (failed = "", errno
\* = ""), or one fails with an errno and the calls after it are not made.
Outcomes(calls, errnos) ==
    {[failed |-> "", errno |-> ""]}
        \cup {[failed |-> c, errno |-> e] : c \in calls, e \in errnos}

\* The system calls made up to and including the one that failed.
RECURSIVE MadeCalls(_, _)
MadeCalls(calls, failed) ==
    IF calls = <<>> THEN <<>>
    ELSE IF Head(calls) = failed THEN <<failed>>
    ELSE <<Head(calls)>> \o MadeCalls(Tail(calls), failed)

SetSock(s, sock) == socks' = [socks EXCEPT ![s] = sock]

\* raw_open_socket, J1939Socket::open: socket(2), then bind(2).
Open(s) ==
    /\ socks[s].link = "Unopened"
    /\ \E addr \in PeerAddrs, o \in Outcomes({"socket", "bind"}, OsErrors) :
        LET sys == MadeCalls(<<"socket", "bind">>, o.failed)
        IN  /\ UNCHANGED notSock
            /\ IF o.failed = ""
                 THEN /\ SetSock(s, [Unopened EXCEPT !.flavor = "blocking",
                                                     !.link = "Unlinked",
                                                     !.fd = Fd(s)])
                      /\ call' = CallRec(s, "open", sys, "ok", NoSockAddr,
                                         IoOk(0, <<>>), "returned")
                 ELSE /\ UNCHANGED socks
                      /\ call' = CallRec(s, "open", sys, o.errno, NoSockAddr,
                                         IoOsError(o.errno), "returned")

\* J1939Socket::rebind: bind(2) on the same descriptor.
Rebind(s) ==
    /\ IsBlocking(s)
    /\ \E addr \in PeerAddrs, o \in Outcomes({"bind"}, OsErrors) :
        /\ UNCHANGED <<notSock, socks>>
        /\ call' = CallRec(s, "rebind", <<"bind">>,
                           IF o.failed = "" THEN "ok" ELSE o.errno, NoSockAddr,
                           IF o.failed = "" THEN IoOk(0, <<>>)
                                            ELSE IoOsError(o.errno),
                           "returned")

\* connect handing a Linked socket back as Unlinked.
ConnectedLink_toggled(link) ==
    IF link = "Linked" THEN "Unlinked" ELSE "Linked"

\* The link state of the value connect returns: J1939Socket<Linked>, whatever
\* the state of the socket it was called on.
ConnectedLink(link) == "Linked"

\* J1939Socket::connect: takes the socket by value; connect(2); on failure
\* the descriptor is dropped with `inner`, on success it is wrapped again as
\* J1939Socket<Linked>.
Connect(s) ==
    /\ IsBlocking(s)
    /\ \E dest \in PeerAddrs, o \in Outcomes({"connect"}, OsErrors) :
        /\ UNCHANGED notSock
        /\ IF o.failed = ""
             THEN /\ SetSock(s, [socks[s] EXCEPT
                                    !.link = ConnectedLink(socks[s].link),
                                    !.connected = TRUE])
                  /\ call' = CallRec(s, "connect", <<"connect">>, "ok",
                                     NoSockAddr, IoOk(0, <<>>), "returned")
             ELSE /\ SetSock(s, Dropped(socks[s]))
                  /\ call' = CallRec(s, "connect", <<"connect", "close">>,
                                     o.errno, NoSockAddr, IoOsError(o.errno),
                                     "returned")

\* The socket value goes out of scope: the descriptor is closed.
Drop(s) ==
    /\ Live(s)
    /\ Idle(s)
    /\ UNCHANGED notSock
    /\ SetSock(s, Dropped(socks[s]))
    /\ call' = CallRec(s, "drop", <<"close">>, "ok", NoSockAddr, IoOk(0, <<>>),
                       "returned")

\* The errnos a data transfer can end with.
SendErrnos(s) ==
    OsErrors \cup (IF socks[s].nonblock \/ socks[s].opts.sndtimeo # 0
                     THEN {"EAGAIN"} ELSE {})

RecvErrnos(s) ==
    OsErrors \cup (IF socks[s].nonblock \/ socks[s].opts.rcvtimeo # 0
                     THEN {"EAGAIN"} ELSE {})

\* The smaller of two numbers.
Min(a, b) == IF a <= b THEN a ELSE b

\* The address containers recvfrom(2) can hand back: a J1939 address, or a
\* container the kernel tagged with another family (AF_UNSPEC when it wrote
\* no address at all, AF_INET).
OsSourceAddrs ==
    {Container(J1939SockAddr_from_parts(3, Name_from(<<0, 0, 0, 0>>),
                                        Pgn_from(126980), Addr_from(2)), f) :
        f \in {AF_CAN, 0, 2}}

\* send_to reporting a failed sendto(2) as zero bytes sent.
send_to_swallowed(s, len, errno) ==
    IF errno = "" THEN IoOk(len, <<>>) ELSE IoOk(0, <<>>)

\* J1939Socket::send_to on the descriptor of s: sendto(2).
send_to(s, len, errno) ==
    IF errno = "" THEN IoOk(len, <<>>) ELSE IoOsError(errno)

\* recv_from with the source address accepted whatever its family.
recv_from_unchecked(s, n, addr, errno) ==
    IF errno # "" THEN IoOsError(errno)
    ELSE IoOk(n, read_bytes(addr.storage, 0, SockaddrCanSize))

\* J1939Socket::recv_from on the descriptor of s: recvfrom(2) returned n
\* bytes from the address container addr, or failed with errno.
recv_from(s, n, addr, errno) ==
    IF errno # "" THEN IoOsError(errno)
    ELSE LET sa_addr == J1939SockAddr_try_from(addr)
         IN  IF ~sa_addr.ok THEN IoError_other("Invalid source address")
             ELSE IoOk(n, sa_addr.addr)

\* impl Read for J1939Socket<Linked>: read(2).
read(s, n, errno) == IF errno = "" THEN IoOk(n, <<>>) ELSE IoOsError(errno)

\* write reporting a failed write(2) as zero bytes written.
write_swallowed(s, len, errno) ==
    IF errno = "" THEN IoOk(len, <<>>) ELSE IoOk(0, <<>>)

\* impl Write for J1939Socket<Linked>: write(2).
write(s, len, errno) == IF errno = "" THEN IoOk(len, <<>>) ELSE IoOsError(errno)

\* Whether the type of the socket value offers Read and Write without a
\* peer (as it would if they were implemented for every S: Peer).
StreamOffered_any(s) == Live(s)

\* Whether the type of the socket value offers Read and Write (AsyncRead
\* and AsyncWrite): they are implemented for the Linked state only.
StreamOffered(s) == socks[s].link = "Linked"

SendTo(s) ==
    /\ IsBlocking(s)
    /\ \E dest \in PeerAddrs, len \in BufLens,
          errno \in {""} \cup SendErrnos(s) :
        /\ UNCHANGED <<notSock, socks>>
        /\ call' = CallRec(s, "send_to", <<"sendto">>,
                           IF errno = "" THEN "ok" ELSE errno, NoSockAddr,
                           send_to(s, len, errno), "returned")

RecvFrom(s) ==
    /\ IsBlocking(s)
    /\ \E buflen \in BufLens, d \in DatagramLens, addr \in OsSourceAddrs,
          errno \in {""} \cup RecvErrnos(s) :
        /\ UNCHANGED <<notSock, socks>>
        /\ call' = CallRec(s, "recv_from", <<"recvfrom">>,
                           IF errno = "" THEN "ok" ELSE errno,
                           IF errno = "" THEN addr ELSE NoSockAddr,
                           recv_from(s, Min(d, buflen), addr, errno),
                           "returned")

Read(s) ==
    /\ IsBlocking(s)
    /\ StreamOffered(s)
    /\ \E buflen \in BufLens, d \in DatagramLens,
          errno \in {""} \cup RecvErrnos(s) :
        /\ UNCHANGED <<notSock, socks>>
        /\ call' = CallRec(s, "read", <<"read">>,
                           IF errno = "" THEN "ok" ELSE errno, NoSockAddr,
                           read(s, Min(d, buflen), errno), "returned")

Write(s) ==
    /\ IsBlocking(s)
    /\ StreamOffered(s)
    /\ \E len \in BufLens, errno \in {""} \cup SendErrnos(s) :
        /\ UNCHANGED <<notSock, socks>>
        /\ call' = CallRec(s, "write", <<"write">>,
                           IF errno = "" THEN "ok" ELSE errno, NoSockAddr,
                           write(s, len, errno), "returned")

(***************************************************************************)
(* The asynchronous socket (tokio.rs): AsyncFd<J1939Socket<S>>.            *)
(*                                                                         *)
(* ready_r and ready_w are the readiness the AsyncFd has cached for the    *)
(* descriptor; the reactor sets them, a WouldBlock from the closure of an  *)
(* I/O attempt clears them.  pending names the operation whose future has  *)
(* returned Poll::Pending and waits to be polled again.  One action is one *)
(* poll of the future of an operation.                                     *)
(***************************************************************************)

\* into_inner leaving the registration in place.
into_inner_registered(sock) ==
    [sock EXCEPT !.ready_r = FALSE, !.ready_w = FALSE]

\* AsyncFd::into_inner: the registration is removed (a failure of the
\* removal is ignored) and with it the cached readiness; the socket is
\* handed out.
into_inner(sock) ==
    [sock EXCEPT !.regs = @ - 1, !.ready_r = FALSE, !.ready_w = FALSE]

\* AsyncFd::new on success: the descriptor of the socket is registered with
\* the reactor, with no readiness cached.
AsyncFd_new(sock) ==
    [sock EXCEPT !.regs = @ + 1, !.ready_r = FALSE, !.ready_w = FALSE]

\* AsyncJ1939Socket::open: J1939Socket::open, set_nonblocking(true) and
\* AsyncFd::new, which registers the descriptor with the reactor.  A failure
\* after socket(2) drops the socket.
AsyncOpen(s) ==
    /\ socks[s].link = "Unopened"
    /\ \E addr \in PeerAddrs,
          o \in Outcomes({"socket", "bind", "fcntl", "epoll_ctl"}, OsErrors) :
        LET made == MadeCalls(<<"socket", "bind", "fcntl", "epoll_ctl">>,
                              o.failed)
            sys == IF o.failed \in {"bind", "fcntl", "epoll_ctl"}
                     THEN made \o <<"close">> ELSE made
        IN  /\ UNCHANGED notSock
            /\ IF o.failed = ""
                 THEN /\ SetSock(s, AsyncFd_new(
                                    [Unopened EXCEPT !.flavor = "async",
                                                     !.link = "Unlinked",
                                                     !.nonblock = TRUE,
                                                     !.fd = Fd(s)]))
                      /\ call' = CallRec(s, "open", sys, "ok", NoSockAddr,
                                         IoOk(0, <<>>), "returned")
                 ELSE /\ UNCHANGED socks
                      /\ call' = CallRec(s, "open", sys, o.errno, NoSockAddr,
                                         IoOsError(o.errno), "returned")

\* AsyncJ1939Socket::rebind: rebind of the inner socket.
AsyncRebind(s) ==
    /\ IsAsync(s)
    /\ socks[s].pending \notin {"read", "write"}
    /\ \E addr \in PeerAddrs, o \in Outcomes({"bind"}, OsErrors) :
        /\ UNCHANGED <<notSock, socks>>
        /\ call' = CallRec(s, "rebind", <<"bind">>,
                           IF o.failed = "" THEN "ok" ELSE o.errno, NoSockAddr,
                           IF o.failed = "" THEN IoOk(0, <<>>)
                                            ELSE IoOsError(o.errno),
                           "returned")

\* AsyncJ1939Socket::connect: takes the socket by value; into_inner removes
\* the registration, J1939Socket::connect connects, AsyncFd::new registers
\* the descriptor again, with no readiness cached.  Either failure drops the
\* socket.
AsyncConnect(s) ==
    /\ IsAsync(s)
    /\ Idle(s)
    /\ \E dest \in PeerAddrs,
          o \in Outcomes({"connect", "epoll_ctl"}, OsErrors) :
        LET made == <<"epoll_ctl_del">>
                        \o MadeCalls(<<"connect", "epoll_ctl">>, o.failed)
            socket == into_inner(socks[s])
        IN  /\ UNCHANGED notSock
            /\ IF o.failed = ""
                 THEN /\ SetSock(s, AsyncFd_new([socket EXCEPT
                                    !.link = ConnectedLink(socks[s].link),
                                    !.connected = TRUE]))
                      /\ call' = CallRec(s, "connect", made, "ok", NoSockAddr,
                                         IoOk(0, <<>>), "returned")
                 ELSE /\ SetSock(s, Dropped(socks[s]))
                      /\ call' = CallRec(s, "connect", made \o <<"close">>,
                                         o.errno, NoSockAddr,
                                         IoOsError(o.errno), "returned")

\* The reactor reports the descriptor readable ("r") or writable ("w").
Reactor(s) ==
    /\ IsAsync(s)
    /\ \E dir \in {"r", "w"} :
        /\ IF dir = "r" THEN ~socks[s].ready_r ELSE ~socks[s].ready_w
        /\ SetSock(s, IF dir = "r" THEN [socks[s] EXCEPT !.ready_r = TRUE]
                                   ELSE [socks[s] EXCEPT !.ready_w = TRUE])
        /\ call' = CallRec(s, "ready_" \o dir, <<>>, "", NoSockAddr, NoResult,
                           "returned")
    /\ UNCHANGED notSock

\* The future of a suspended operation is dropped.
Cancel(s) ==
    /\ IsAsync(s)
    /\ ~Idle(s)
    /\ UNCHANGED notSock
    /\ call' = CallRec(s, "cancel", <<>>, "", NoSockAddr, NoResult, "returned")
    /\ SetSock(s, [socks[s] EXCEPT !.pending = "none"])

\* try_io handing the closure's result on whatever its kind.
try_io_transparent(result) == [would_block |-> FALSE, result |-> result]

\* AsyncFdReadyGuard::try_io (and the same step inside AsyncFd::async_io):
\* a WouldBlock error of the closure is not handed on; the guard clears the
\* readiness and reports that the attempt would block.
try_io(result) ==
    [would_block |-> ~result.ok /\ result.kind = "WouldBlock",
     result |-> result]

\* The error of awaiting readiness after the runtime's I/O driver is gone.
RuntimeShutdown ==
    IoError_other("A Tokio 1.x context was found, but it is being shutdown.")

\* A poll of the future of operation op on s after the runtime's I/O driver
\* is gone: awaiting readiness fails and the future completes with the error.
PollGone(s, op) ==
    /\ UNCHANGED notSock
    /\ SetSock(s, [socks[s] EXCEPT !.pending = "none"])
    /\ call' = CallRec(s, op, <<>>, "", NoSockAddr, RuntimeShutdown,
                       "returned")

\* An AsyncFd that never sees the readiness the reactor reports.
IsReady_never(s, dir) == FALSE

\* Whether the AsyncFd of s has readiness cached for direction dir.
IsReady(s, dir) == IF dir = "r" THEN socks[s].ready_r ELSE socks[s].ready_w

\* A poll of the future of operation op on s with no readiness cached for
\* its direction: the waker is registered and the poll returns Pending.
PollPending(s, op, dir) ==
    /\ ~IsReady(s, dir)
    /\ UNCHANGED notSock
    /\ SetSock(s, [socks[s] EXCEPT !.pending = op])
    /\ call' = CallRec(s, op, <<>>, "", NoSockAddr, NoResult, "suspended")

\* A poll of the future of operation op on s with readiness cached: the
\* closure runs; sys and os are the system call it makes and how that ended,
\* osaddr and result what it produced.  If try_io reports that it would
\* block, readiness is cleared and the loop waits again, which returns
\* Pending.  Otherwise the future completes with the result.
PollAttempt(s, op, dir, sys, os, osaddr, result) ==
    LET t == try_io(result)
    IN  /\ IsReady(s, dir)
        /\ UNCHANGED notSock
        /\ IF t.would_block
             THEN /\ SetSock(s, IF dir = "r"
                                  THEN [socks[s] EXCEPT !.pending = op,
                                                        !.ready_r = FALSE]
                                  ELSE [socks[s] EXCEPT !.pending = op,
                                                        !.ready_w = FALSE])
                  /\ call' = CallRec(s, op, sys, os, NoSockAddr, NoResult,
                                     "suspended")
             ELSE /\ SetSock(s, [socks[s] EXCEPT !.pending = "none"])
                  /\ call' = CallRec(s, op, sys, os, osaddr, t.result,
                                     "returned")

\* AsyncJ1939Socket::send_to: async_io(WRITABLE, send_to).
AsyncSendTo(s) ==
    /\ IsAsync(s)
    /\ socks[s].pending \in {"none", "send_to"}
    /\ \/ PollGone(s, "send_to")
       \/ PollPending(s, "send_to", "w")
       \/ \E dest \in PeerAddrs, len \in BufLens,
             errno \in {""} \cup SendErrnos(s) :
            PollAttempt(s, "send_to", "w", <<"sendto">>,
                        IF errno = "" THEN "ok" ELSE errno, NoSockAddr,
                        send_to(s, len, errno))

\* AsyncJ1939Socket::recv_from: async_io(READABLE, recv_from).
AsyncRecvFrom(s) ==
    /\ IsAsync(s)
    /\ socks[s].pending \in {"none", "recv_from"}
    /\ \/ PollGone(s, "recv_from")
       \/ PollPending(s, "recv_from", "r")
       \/ \E buflen \in BufLens, d \in DatagramLens, addr \in OsSourceAddrs,
             errno \in {""} \cup RecvErrnos(s) :
            PollAttempt(s, "recv_from", "r", <<"recvfrom">>,
                        IF errno = "" THEN "ok" ELSE errno,
                        IF errno = "" THEN addr ELSE NoSockAddr,
                        recv_from(s, Min(d, buflen), addr, errno))

\* AsyncRead::poll_read for AsyncJ1939Socket<Linked>.
PollRead(s) ==
    /\ IsAsync(s)
    /\ StreamOffered(s)
    /\ socks[s].pending \in {"none", "read"}
    /\ \/ PollGone(s, "read")
       \/ PollPending(s, "read", "r")
       \/ \E buflen \in BufLens, d \in DatagramLens,
             errno \in {""} \cup RecvErrnos(s) :
            PollAttempt(s, "read", "r", <<"read">>,
                        IF errno = "" THEN "ok" ELSE errno, NoSockAddr,
                        read(s, Min(d, buflen), errno))

\* AsyncWrite::poll_write for AsyncJ1939Socket<Linked>.
PollWrite(s) ==
    /\ IsAsync(s)
    /\ StreamOffered(s)
    /\ socks[s].pending \in {"none", "write"}
    /\ \/ PollGone(s, "write")
       \/ PollPending(s, "write", "w")
       \/ \E len \in BufLens, errno \in {""} \cup SendErrnos(s) :
            PollAttempt(s, "write", "w", <<"write">>,
                        IF errno = "" THEN "ok" ELSE errno, NoSockAddr,
                        write(s, len, errno))

(***************************************************************************)
(* Receive filters (filter.rs) and socket options (options.rs).            *)
(***************************************************************************)
SOL_SOCKET == 1
SOL_CAN_J1939 == 107
SO_J1939_FILTER == 1
SO_J1939_PROMISC == 2
SO_REUSEADDR == 2
SO_BROADCAST == 6
SO_RCVTIMEO == 20
SO_SNDTIMEO == 21

\* size_of::<j1939_filter>() and size_of::<c_int>().
J1939FilterSize == 32
CIntSize == 4
TimevalSize == 16

\* J1939Filter::new_raw; a J1939Filter wraps the libc j1939_filter it builds.
J1939Filter_new_raw(nm, name_mask, pg, pgn_mask, ad, addr_mask) ==
    [name |-> nm, name_mask |-> name_mask,
     pgn |-> BitAnd(pg, J1939_PGN_MAX),
     pgn_mask |-> BitAnd(pgn_mask, J1939_PGN_MAX),
     addr |-> ad, addr_mask |-> addr_mask]

\* impl From<J1939Filter> for j1939_filter.
j1939_filter_from(f) == f

\* The filter masks: Full, Pdu1 (PGN only) or Partial(mask).
Full == [kind |-> "Full", mask |-> 0]
Pdu1 == [kind |-> "Pdu1", mask |-> 0]
Partial(mask) == [kind |-> "Partial", mask |-> mask]

\* impl From<NameFilterMask> for u64.
u64_from_NameFilterMask(mask) ==
    IF mask.kind = "Full" THEN <<65535, 65535, 65535, 65535>> ELSE mask.mask

\* The PGN mask conversion handing a Partial mask on as it is.
u32_from_PgnFilterMask_untruncated(mask) ==
    CASE mask.kind = "Pdu1" -> J1939_PGN_PDU1_MAX
      [] mask.kind = "Partial" -> mask.mask
      [] mask.kind = "Full" -> J1939_PGN_MAX

\* impl From<PgnFilterMask> for u32.
u32_from_PgnFilterMask(mask) ==
    CASE mask.kind = "Pdu1" -> J1939_PGN_PDU1_MAX
      [] mask.kind = "Partial" -> BitAnd(mask.mask, J1939_PGN_MAX)
      [] mask.kind = "Full" -> J1939_PGN_MAX

\* impl From<AddrFilterMask> for u8.
u8_from_AddrFilterMask(mask) ==
    IF mask.kind = "Full" THEN 255 ELSE mask.mask

\* NameFilter::new.
NameFilter_new(n, mask) ==
    [name |-> u64_from_Name(n), mask |-> u64_from_NameFilterMask(mask)]

\* PgnFilter::new keeping the PGN as it is stored in the Pgn.
PgnFilter_new_stored(p, mask) ==
    [pgn |-> p, mask |-> u32_from_PgnFilterMask(mask)]

\* PgnFilter::new.
PgnFilter_new(p, mask) ==
    [pgn |-> u32_from_Pgn(p), mask |-> u32_from_PgnFilterMask(mask)]

\* AddrFilter::new.
AddrFilter_new(addr, mask) ==
    [addr |-> u8_from_Addr(addr), mask |-> u8_from_AddrFilterMask(mask)]

\* J1939Filter::new.
J1939Filter_new(name_filter, pgn_filter, addr_filter) ==
    [name |-> name_filter.name, name_mask |-> name_filter.mask,
     pgn |-> pgn_filter.pgn, pgn_mask |-> pgn_filter.mask,
     addr |-> addr_filter.addr, addr_mask |-> addr_filter.mask]

\* impl From<NameFilter> for J1939Filter.
J1939Filter_from_NameFilter(name_filter) ==
    [name |-> name_filter.name, name_mask |-> name_filter.mask,
     pgn |-> 0, pgn_mask |-> 0, addr |-> 0, addr_mask |-> 0]

\* The conversion of a PgnFilter that matches every address exactly.
J1939Filter_from_PgnFilter_any_addr(pgn_filter) ==
    [name |-> <<0, 0, 0, 0>>, name_mask |-> <<0, 0, 0, 0>>,
     pgn |-> pgn_filter.pgn, pgn_mask |-> pgn_filter.mask,
     addr |-> 0, addr_mask |-> 255]

\* impl From<PgnFilter> for J1939Filter.
J1939Filter_from_PgnFilter(pgn_filter) ==
    [name |-> <<0, 0, 0, 0>>, name_mask |-> <<0, 0, 0, 0>>,
     pgn |-> pgn_filter.pgn, pgn_mask |-> pgn_filter.mask,
     addr |-> 0, addr_mask |-> 0]

\* impl From<AddrFilter> for J1939Filter.
J1939Filter_from_AddrFilter(addr_filter) ==
    [name |-> <<0, 0, 0, 0>>, name_mask |-> <<0, 0, 0, 0>>,
     pgn |-> 0, pgn_mask |-> 0,
     addr |-> addr_filter.addr, addr_mask |-> addr_filter.mask]

\* What the filter constructors are given.  A Partial PGN mask is a u32:
\* 0x7FFFF and 0x7FFFFFFF have bits beyond the 18 of a PGN.
FilterNames == {<<291, 17767, 35243, 52719>>, <<38660, 821, 256, 4>>}
NameFilterMasks == {Full, Partial(<<0, 0, 65535, 0>>)}
FilterPgns == {8448, 8703, 61439, 126980}  \* 0x2100 0x21FF 0xEFFF 0x1F004
PgnFilterMasks ==
    {Full, Pdu1, Partial(0), Partial(524287), Partial(2147483647)}
FilterAddrs == {18}
AddrFilterMasks == {Full, Partial(15)}

NoNameFilter == [name |-> <<0, 0, 0, 0>>, mask |-> <<0, 0, 0, 0>>]
NoPgnFilter == [pgn |-> 0, mask |-> 0]
NoAddrFilter == [addr |-> 0, mask |-> 0]

\* A record of one construction: the constructor, the identifier values and
\* masks it was given (those of parts), and the partial filters made of them.
FilterCallRec(op, parts, n, nmask, p, pmask, addr, amask, nf, pf, af) ==
    [op |-> op, parts |-> parts, name |-> n, nmask |-> nmask, pgn |-> p,
     pmask |-> pmask, addr |-> addr, amask |-> amask,
     name_filter |-> nf, pgn_filter |-> pf, addr_filter |-> af]

FilterIdle ==
    /\ filter = J1939Filter_new_raw(<<0, 0, 0, 0>>, <<0, 0, 0, 0>>, 0, 0, 0, 0)
    /\ filterCall = FilterCallRec("new_raw", {}, <<0, 0, 0, 0>>, Partial(0), 0,
                                  Partial(0), 0, Partial(0), NoNameFilter,
                                  NoPgnFilter, NoAddrFilter)

\* J1939Filter::new(NameFilter::new(..), PgnFilter::new(..),
\* AddrFilter::new(..)).
FilterNew ==
    \E n \in FilterNames, nmask \in NameFilterMasks, raw \in FilterPgns,
       pmask \in PgnFilterMasks, addr \in FilterAddrs,
       amask \in AddrFilterMasks :
        LET nf == NameFilter_new(Name_from(n), nmask)
            pf == PgnFilter_new(Pgn_from(raw), pmask)
            af == AddrFilter_new(Addr_from(addr), amask)
        IN  /\ UNCHANGED notFilter
            /\ filter' = J1939Filter_new(nf, pf, af)
            /\ filterCall' = FilterCallRec("new", {"name", "pgn", "addr"}, n,
                                           nmask, Pgn_from(raw), pmask, addr,
                                           amask, nf, pf, af)

\* NameFilter::new(..).into().
FilterFromName ==
    \E n \in FilterNames, nmask \in NameFilterMasks :
        LET nf == NameFilter_new(Name_from(n), nmask)
        IN  /\ UNCHANGED notFilter
            /\ filter' = J1939Filter_from_NameFilter(nf)
            /\ filterCall' = FilterCallRec("from", {"name"}, n, nmask, 0,
                                           Partial(0), 0, Partial(0), nf,
                                           NoPgnFilter, NoAddrFilter)

\* PgnFilter::new(..).into().
FilterFromPgn ==
    \E raw \in FilterPgns, pmask \in PgnFilterMasks :
        LET pf == PgnFilter_new(Pgn_from(raw), pmask)
        IN  /\ UNCHANGED notFilter
            /\ filter' = J1939Filter_from_PgnFilter(pf)
            /\ filterCall' = FilterCallRec("from", {"pgn"}, <<0, 0, 0, 0>>,
                                           Partial(0), Pgn_from(raw), pmask, 0,
                                           Partial(0), NoNameFilter, pf,
                                           NoAddrFilter)

\* AddrFilter::new(..).into().
FilterFromAddr ==
    \E addr \in FilterAddrs, amask \in AddrFilterMasks :
        LET af == AddrFilter_new(Addr_from(addr), amask)
        IN  /\ UNCHANGED notFilter
            /\ filter' = J1939Filter_from_AddrFilter(af)
            /\ filterCall' = FilterCallRec("from", {"addr"}, <<0, 0, 0, 0>>,
                                           Partial(0), 0, Partial(0), addr,
                                           amask, NoNameFilter, NoPgnFilter, af)

FilterNext ==
    \/ FilterNew
    \/ FilterFromName
    \/ FilterFromPgn
    \/ FilterFromAddr

MaxFilters == 2

FilterPool ==
    {J1939Filter_new_raw(<<0, 0, 0, 0>>, <<0, 0, 0, 0>>, 126980, 262143, 0, 0),
     J1939Filter_new_raw(<<0, 0, 0, 4>>, <<65535, 65535, 65535, 65535>>,
                         524287, 0, 32, 255)}

\* The filter collections a caller passes: every sequence of up to
\* MaxFilters filters of the pool.
FilterLists ==
    UNION {[1..n -> FilterPool] : n \in 0..MaxFilters}

\* Option<Duration>, the duration in nanoseconds.
None == [some |-> FALSE, nanos |-> 0]
Some(nanos) == [some |-> TRUE, nanos |-> nanos]

Durations == {None, Some(500), Some(1500000)}

\* socket2's conversion of Option<Duration> to a timeval, in microseconds.
into_timeval(duration) ==
    IF duration.some THEN duration.nanos \div 1000 ELSE 0

\* socket2's conversion of a timeval back: the zero timeval is None.
from_timeval(usec) == IF usec = 0 THEN None ELSE Some(usec * 1000)

\* setsockopt(2) as the kernel applies it to the options of a socket.
kernel_setsockopt(opts, level, optname, data) ==
    IF level = SOL_SOCKET /\ optname = SO_REUSEADDR
      THEN [opts EXCEPT !.reuseaddr = (data[1] # 0)]
    ELSE IF level = SOL_SOCKET /\ optname = SO_BROADCAST
      THEN [opts EXCEPT !.broadcast = (data[1] # 0)]
    ELSE IF level = SOL_SOCKET /\ optname = SO_RCVTIMEO
      THEN [opts EXCEPT !.rcvtimeo = data[1]]
    ELSE IF level = SOL_SOCKET /\ optname = SO_SNDTIMEO
      THEN [opts EXCEPT !.sndtimeo = data[1]]
    ELSE IF level = SOL_CAN_J1939 /\ optname = SO_J1939_PROMISC
      THEN [opts EXCEPT !.j1939_promisc = (data[1] # 0)]
    ELSE opts

\* getsockopt(2) as the kernel answers it.
kernel_getsockopt(opts, level, optname) ==
    IF level = SOL_SOCKET /\ optname = SO_REUSEADDR
      THEN (IF opts.reuseaddr THEN 1 ELSE 0)
    ELSE IF level = SOL_SOCKET /\ optname = SO_BROADCAST
      THEN (IF opts.broadcast THEN 1 ELSE 0)
    ELSE IF level = SOL_SOCKET /\ optname = SO_RCVTIMEO THEN opts.rcvtimeo
    ELSE IF level = SOL_SOCKET /\ optname = SO_SNDTIMEO THEN opts.sndtimeo
    ELSE IF level = SOL_CAN_J1939 /\ optname = SO_J1939_PROMISC
      THEN (IF opts.j1939_promisc THEN 1 ELSE 0)
    ELSE 0

\* set_socket_option: the arguments of its one setsockopt(2).
set_socket_option(level, optname, val, size) ==
    OptArgs(level, optname, FALSE, <<val>>, size)

\* set_socket_option_mult passing the slice's pointer even when it is empty.
set_socket_option_mult_dangling(level, optname, values, size) ==
    OptArgs(level, optname, FALSE, values, Len(values) * size)

\* set_socket_option_mult: the arguments of its one setsockopt(2); a null
\* pointer and length 0 for an empty slice.
set_socket_option_mult(level, optname, values, size) ==
    IF values = <<>>
      THEN OptArgs(level, optname, TRUE, <<>>, 0)
      ELSE OptArgs(level, optname, FALSE, values, Len(values) * size)

\* Setters take &mut self: no future borrows the socket.
CanSet(s) == Live(s) /\ Idle(s)

\* Getters take &self: no AsyncRead or AsyncWrite future holds the socket
\* mutably.
CanGet(s) == Live(s) /\ socks[s].pending \notin {"read", "write"}

\* A setter: one setsockopt(2) with arguments args, which the kernel accepts
\* or rejects.
SetOption(s, op, arg, args) ==
    /\ UNCHANGED notSock
    /\ \E o \in Outcomes({"setsockopt"}, OsErrors) :
        IF o.failed = ""
          THEN /\ SetSock(s, [socks[s] EXCEPT !.opts =
                        kernel_setsockopt(@, args.level, args.name, args.data)])
               /\ call' = OptCallRec(s, op, arg, <<"setsockopt">>, <<args>>, "ok",
                                     NoSockAddr, IoOk(0, <<>>), "returned")
          ELSE /\ UNCHANGED socks
               /\ call' = OptCallRec(s, op, arg, <<"setsockopt">>, <<args>>,
                                     o.errno, NoSockAddr, IoOsError(o.errno),
                                     "returned")

\* A getter: one getsockopt(2) for level and optname; val is the value the
\* getter makes of the kernel's answer.
GetOption(s, op, level, optname, size, val) ==
    /\ UNCHANGED <<notSock, socks>>
    /\ \E o \in Outcomes({"getsockopt"}, OsErrors) :
        call' = OptCallRec(s, op, <<>>, <<"getsockopt">>,
                           <<OptArgs(level, optname, FALSE, <<>>, size)>>,
                           IF o.failed = "" THEN "ok" ELSE o.errno, NoSockAddr,
                           IF o.failed = "" THEN IoOkVal(val)
                                            ELSE IoOsError(o.errno),
                           "returned")

\* SocketOptions::set_filters.
SetFilters(s) ==
    /\ CanSet(s)
    /\ \E filters \in FilterLists :
           SetOption(s, "set_filters", filters,
                     set_socket_option_mult(SOL_CAN_J1939, SO_J1939_FILTER,
                         [i \in DOMAIN filters |-> j1939_filter_from(filters[i])],
                         J1939FilterSize))

\* What each getter makes of the kernel's answer for a socket in state sock:
\* promisc (promisc != 0), nonblocking (the O_NONBLOCK flag), read_timeout
\* and write_timeout (the timeval converted back), broadcast.
promisc(sock) ==
    kernel_getsockopt(sock.opts, SOL_SOCKET, SO_J1939_PROMISC) # 0

nonblocking(sock) == sock.nonblock

read_timeout(sock) ==
    from_timeval(kernel_getsockopt(sock.opts, SOL_SOCKET, SO_RCVTIMEO))

write_timeout(sock) ==
    from_timeval(kernel_getsockopt(sock.opts, SOL_SOCKET, SO_SNDTIMEO))

broadcast(sock) ==
    kernel_getsockopt(sock.opts, SOL_SOCKET, SO_BROADCAST) # 0

\* SocketOptions::promisc.
Promisc(s) ==
    /\ CanGet(s)
    /\ GetOption(s, "promisc", SOL_SOCKET, SO_J1939_PROMISC, CIntSize,
                 promisc(socks[s]))

\* SocketOptions::set_promisc.
SetPromisc(s) ==
    /\ CanSet(s)
    /\ \E value \in BOOLEAN :
           SetOption(s, "set_promisc", value,
                     set_socket_option(SOL_SOCKET, SO_J1939_PROMISC,
                                       IF value THEN 1 ELSE 0, CIntSize))

\* SocketOptions::nonblocking: fcntl(F_GETFL) and the O_NONBLOCK flag.
Nonblocking(s) ==
    /\ CanGet(s)
    /\ UNCHANGED <<notSock, socks>>
    /\ \E o \in Outcomes({"fcntl"}, OsErrors) :
        call' = CallRec(s, "nonblocking", <<"fcntl">>,
                        IF o.failed = "" THEN "ok" ELSE o.errno, NoSockAddr,
                        IF o.failed = "" THEN IoOkVal(nonblocking(socks[s]))
                                         ELSE IoOsError(o.errno),
                        "returned")

\* SocketOptions::set_nonblocking: fcntl(F_GETFL), then fcntl(F_SETFL) if the
\* flag changes.
SetNonblocking(s) ==
    /\ CanSet(s)
    /\ UNCHANGED notSock
    /\ \E value \in BOOLEAN, o \in Outcomes({"fcntl"}, OsErrors) :
        IF o.failed = ""
          THEN /\ SetSock(s, [socks[s] EXCEPT !.nonblock = value])
               /\ call' = OptCallRec(s, "set_nonblocking", value,
                                     <<"fcntl">>, <<>>, "ok", NoSockAddr,
                                     IoOk(0, <<>>), "returned")
          ELSE /\ UNCHANGED socks
               /\ call' = OptCallRec(s, "set_nonblocking", value,
                                     <<"fcntl">>, <<>>, o.errno, NoSockAddr,
                                     IoOsError(o.errno), "returned")

\* SocketOptions::read_timeout.
ReadTimeout(s) ==
    /\ CanGet(s)
    /\ GetOption(s, "read_timeout", SOL_SOCKET, SO_RCVTIMEO, TimevalSize,
                 read_timeout(socks[s]))

\* SocketOptions::set_read_timeout.
SetReadTimeout(s) ==
    /\ CanSet(s)
    /\ \E duration \in Durations :
           SetOption(s, "set_read_timeout", duration,
                     set_socket_option(SOL_SOCKET, SO_RCVTIMEO,
                                       into_timeval(duration), TimevalSize))

\* SocketOptions::write_timeout.
WriteTimeout(s) ==
    /\ CanGet(s)
    /\ GetOption(s, "write_timeout", SOL_SOCKET, SO_SNDTIMEO, TimevalSize,
                 write_timeout(socks[s]))

\* SocketOptions::set_write_timeout.
SetWriteTimeout(s) ==
    /\ CanSet(s)
    /\ \E duration \in Durations :
           SetOption(s, "set_write_timeout", duration,
                     set_socket_option(SOL_SOCKET, SO_SNDTIMEO,
                                       into_timeval(duration), TimevalSize))

\* SocketOptions::broadcast.
Broadcast(s) ==
    /\ CanGet(s)
    /\ GetOption(s, "broadcast", SOL_SOCKET, SO_BROADCAST, CIntSize,
                 broadcast(socks[s]))

\* SocketOptions::set_broadcast.
SetBroadcast(s) ==
    /\ CanSet(s)
    /\ \E value \in BOOLEAN :
           SetOption(s, "set_broadcast", value,
                     set_socket_option(SOL_SOCKET, SO_BROADCAST,
                                       IF value THEN 1 ELSE 0, CIntSize))

\* Every call on a socket.
SockNext ==
    \E s \in Sockets :
        \/ Open(s)
        \/ Rebind(s)
        \/ Connect(s)
        \/ Drop(s)
        \/ SendTo(s)
        \/ RecvFrom(s)
        \/ Read(s)
        \/ Write(s)
        \/ AsyncOpen(s)
        \/ AsyncRebind(s)
        \/ AsyncConnect(s)
        \/ Reactor(s)
        \/ Cancel(s)
        \/ AsyncSendTo(s)
        \/ AsyncRecvFrom(s)
        \/ PollRead(s)
        \/ PollWrite(s)
        \/ SetFilters(s)
        \/ Promisc(s)
        \/ SetPromisc(s)
        \/ Nonblocking(s)
        \/ SetNonblocking(s)
        \/ ReadTimeout(s)
        \/ SetReadTimeout(s)
        \/ WriteTimeout(s)
        \/ SetWriteTimeout(s)
        \/ Broadcast(s)
        \/ SetBroadcast(s)

(***************************************************************************)
(* Specifications.  Each follows one component; the others stay as they    *)
(* are constructed.                                                        *)
(***************************************************************************)
InitPgn == PgnInit /\ NameIdle /\ AddrIdle /\ SockIdle /\ FilterIdle

SpecPgn == InitPgn /\ [][PgnNext]_vars

InitName == NameInit /\ PgnIdle /\ AddrIdle /\ SockIdle /\ FilterIdle

SpecName == InitName /\ [][NameNext]_vars

InitAddr == AddrIdle /\ PgnIdle /\ NameIdle /\ SockIdle /\ FilterIdle

SpecAddr == InitAddr /\ [][AddrNext]_vars

InitSock == SockIdle /\ PgnIdle /\ NameIdle /\ AddrIdle /\ FilterIdle

SpecSock == InitSock /\ [][SockNext]_vars

\* The asynchronous data operations on their own, with the calls that make
\* and end an asynchronous socket.
PollNext ==
    \E s \in Sockets :
        \/ AsyncOpen(s)
        \/ AsyncConnect(s)
        \/ Drop(s)
        \/ Reactor(s)
        \/ Cancel(s)
        \/ AsyncSendTo(s)
        \/ AsyncRecvFrom(s)
        \/ PollRead(s)
        \/ PollWrite(s)

\* The reactor reports readiness for direction dir.
ReadyFires(s, dir) == Reactor(s) /\ call'.op = "ready_" \o dir

\* A poll of the suspended operation op whose system call ends with
\* something other than EAGAIN.
PollTransfers(s, op) ==
    /\ socks[s].pending = op
    /\ (IF op = "read" THEN PollRead(s) ELSE PollWrite(s))
    /\ call'.sys # <<>>
    /\ call'.os # "EAGAIN"

\* Readiness is reported after every suspension, and the system call of a
\* suspended operation that is attempted again and again does not end with
\* EAGAIN for ever.
FairPoll ==
    \A s \in Sockets :
        /\ WF_vars(ReadyFires(s, "r"))
        /\ WF_vars(ReadyFires(s, "w"))
        /\ SF_vars(PollTransfers(s, "read"))
        /\ SF_vars(PollTransfers(s, "write"))

SpecPoll == InitSock /\ [][PollNext]_vars /\ FairPoll

InitFilter == FilterIdle /\ PgnIdle /\ NameIdle /\ AddrIdle /\ SockIdle

SpecFilter == InitFilter /\ [][FilterNext]_vars


(***************************************************************************)
(* Claims about Pgn, checked under SpecPgn.                                *)
(***************************************************************************)

\* C1: for every 18-bit input p, the u32 wire form of Pgn::from(p) is p
\* with the PDU-specific byte (bits 0-7) zeroed when p's PDU-format byte
\* (bits 8-15) is <= 239, and p unchanged when that byte is >= 240.
C1_WireForm ==
    LET Expected(p) ==
            IF (p \div 256) % 256 <= 239 THEN p - (p % 256) ELSE p
    IN  /\ (pgnCall.op = "from" /\ pgnCall.a <= J1939_PGN_MAX)
              => u32_from_Pgn(pgn) = Expected(pgnCall.a)
        /\ pgnCall.op = "into_u32"
              => pgnCall.out = Expected(pgnCall.before)

\* C1's case: Pgn::from(0x1EFFF), the last PDU1 format with a non-zero
\* PDU-specific byte, has the wire form 0x1EF00.
C1_Witness ==
    /\ pgnCall.op = "from"
    /\ pgnCall.a = 126975
    /\ u32_from_Pgn(pgn) = 126720

\* C9: Pgn::new(data_page, pdu_format, pdu_specific) returns exactly its
\* three arguments from its three accessors, and each field setter leaves
\* the other two fields unchanged.
C9_NewRoundTrip ==
    /\ pgnCall.op = "new"
          => /\ data_page(pgn) = pgnCall.flag
             /\ pdu_format(pgn) = pgnCall.a
             /\ pdu_specific(pgn) = pgnCall.b
    /\ pgnCall.op = "set_data_page"
          => /\ pdu_format(pgn) = pdu_format(pgnCall.before)
             /\ pdu_specific(pgn) = pdu_specific(pgnCall.before)
    /\ pgnCall.op = "set_pdu_format"
          => /\ data_page(pgn) = data_page(pgnCall.before)
             /\ pdu_specific(pgn) = pdu_specific(pgnCall.before)
    /\ pgnCall.op = "set_pdu_specific"
          => /\ data_page(pgn) = data_page(pgnCall.before)
             /\ pdu_format(pgn) = pdu_format(pgnCall.before)

\* C9's case: Pgn::new(true, 0xF0, 0x04) is 0x01F004.
C9_Witness ==
    /\ pgnCall.op = "new"
    /\ pgnCall.flag /\ pgnCall.a = 240 /\ pgnCall.b = 4
    /\ pgn = 126980

\* C10: every Pgn reachable through Pgn::from, Pgn::new, Pgn::from_le_bytes,
\* the named constants and the field setters has a raw value of at most
\* 0x3FFFF, and Pgn::from(raw) is raw with the bits above bit 17 cleared.
C10_EighteenBits ==
    /\ pgn <= 262143
    /\ pgnCall.op = "from" => pgn = pgnCall.a % 262144

\* C10's case: a raw value with bits above bit 17 set was passed to
\* Pgn::from, and a Pgn other than zero came out.
C10_Witness ==
    /\ pgnCall.op = "from"
    /\ pgnCall.a > 262143
    /\ pgn # 0

(***************************************************************************)
(* Claims about Name, checked under SpecName.                              *)
(***************************************************************************)

\* What C2 asks of a mutator of the field at bits lo..hi-1, given the value
\* the field's accessor now returns (got) and the Name that setting the
\* field back to its original value gives (restored).
C2_Field(lo, hi, got, restored) ==
    /\ got = nameCall.a % Pow2(hi - lo)
    /\ \A i \in 0..63 : (i < lo \/ i >= hi) => name[i] = nameCall.before[i]
    /\ restored = nameCall.before
    /\ u64_from_Name(restored) = u64_from_Name(nameCall.before)

\* C2: after any NAME sub-field mutator is called with any value v, the
\* sub-field reads back v truncated to the sub-field's width, every bit
\* outside the sub-field (the other sub-fields and the reserved bit 48) is as
\* before, and setting the sub-field back to its original value restores
\* the full 64-bit value.
C2_NameFieldWrite ==
    LET b == nameCall.before
    IN
    /\ nameCall.op = "set_arbitrary_address_capable"
          => /\ arbitrary_address_capable(name) = nameCall.flag
             /\ \A i \in 0..62 : name[i] = b[i]
             /\ set_arbitrary_address_capable(
                    name, arbitrary_address_capable(b)) = b
    /\ nameCall.op = "set_industry_group"
          => C2_Field(60, 63, industry_group(name),
                      set_industry_group(name, industry_group(b)))
    /\ nameCall.op = "set_vehicle_system_instance"
          => C2_Field(56, 60, vehicle_system_instance(name),
                      set_vehicle_system_instance(
                          name, vehicle_system_instance(b)))
    /\ nameCall.op = "set_vehicle_system"
          => C2_Field(49, 56, vehicle_system(name),
                      set_vehicle_system(name, vehicle_system(b)))
    /\ nameCall.op = "set_function"
          => C2_Field(40, 48, function(name),
                      set_function(name, function(b)))
    /\ nameCall.op = "set_function_instance"
          => C2_Field(35, 40, function_instance(name),
                      set_function_instance(name, function_instance(b)))
    /\ nameCall.op = "set_ecu_instance"
          => C2_Field(32, 35, ecu_instance(name),
                      set_ecu_instance(name, ecu_instance(b)))
    /\ nameCall.op = "set_manufacturer_code"
          => C2_Field(21, 32, manufacturer_code(name),
                      set_manufacturer_code(name, manufacturer_code(b)))
    /\ nameCall.op = "set_identity_number"
          => C2_Field(0, 21, identity_number(name),
                      set_identity_number(name, identity_number(b)))

\* C2's case: set_industry_group(0xFF) on a Name whose bit 63 is clear and
\* whose industry group was not 7: the field reads 7 and bit 63 stays clear.
C2_Witness ==
    /\ nameCall.op = "set_industry_group"
    /\ nameCall.a = 255
    /\ ~nameCall.before[63]
    /\ industry_group(nameCall.before) # 7
    /\ industry_group(name) = 7
    /\ ~name[63]

(***************************************************************************)
(* Claims about J1939SockAddr, checked under SpecAddr.                     *)
(***************************************************************************)

\* C5: decoding a generic socket-address container into a J1939SockAddr
\* succeeds if and only if its family tag equals AF_CAN; for every other
\* family tag the decode returns the InvalidAddressFamily error and produces
\* no address value.
C5_DecodeFamily ==
    addrCall.op = "try_from" =>
        LET tag == addrCall.container.storage[1]
                       + 256 * addrCall.container.storage[2]
        IN  /\ addrCall.ok <=> tag = 29
            /\ addrCall.ok =>
                  /\ addrCall.err = ""
                  /\ sockaddr = SubSeq(addrCall.container.storage, 1, 24)
            /\ ~addrCall.ok =>
                  /\ addrCall.err = "InvalidAddressFamily"
                  /\ sockaddr = addrCall.before

\* C5's case: a container tagged AF_INET was decoded and refused.
C5_Witness ==
    /\ addrCall.op = "try_from"
    /\ addrCall.container.storage[1] = 2
    /\ addrCall.container.storage[2] = 0
    /\ ~addrCall.ok
    /\ addrCall.err = "InvalidAddressFamily"

\* C3: stream-style read and write occur only on a socket value returned by a
\* successful connect.  Every read or write (blocking, or a poll of the
\* asynchronous one) was made on a Linked socket on whose handle a connect
\* has succeeded; every Linked socket came from a successful connect; and a
\* socket in the Unlinked state offers none of read, write, poll_read and
\* poll_write.
C3_StreamAfterConnect ==
    /\ call.op \in {"read", "write"} =>
        /\ call.linkBefore = "Linked"
        /\ socks[call.sock].connected
    /\ \A s \in Sockets :
        /\ socks[s].link = "Linked" => socks[s].connected
        /\ socks[s].link = "Unlinked" =>
            /\ ~socks[s].connected
            /\ ~ENABLED Read(s)
            /\ ~ENABLED Write(s)
            /\ ~ENABLED PollRead(s)
            /\ ~ENABLED PollWrite(s)

C3_Witness ==
    /\ call.op = "write"
    /\ call.flavor = "async"
    /\ call.phase = "returned"
    /\ call.result.ok
    /\ socks[call.sock].connected

\* The operations that are neither open, connect nor drop.
C4_OtherOps ==
    {"rebind", "send_to", "recv_from", "read", "write", "cancel", "ready_r",
     "ready_w", "set_filters", "promisc", "set_promisc", "nonblocking",
     "set_nonblocking", "read_timeout", "set_read_timeout", "write_timeout",
     "set_write_timeout", "broadcast", "set_broadcast"}

\* C4: a socket value is in exactly one of the states Unlinked and Linked;
\* open yields Unlinked; rebind, send_to, recv_from, read, write and every
\* option accessor leave the link state as it was; a successful connect
\* yields Linked, also on a Linked socket; nothing takes a Linked socket back
\* to Unlinked.  rebind, connect, send_to, recv_from and the option accessors
\* are offered in both states, read and write in Linked.
C4_LinkState ==
    /\ \A s \in Sockets :
        /\ socks[s].link \in {"Unopened", "Unlinked", "Linked", "Dropped"}
        /\ socks[s].flavor \in {"blocking", "async"} <=>
               socks[s].link \in {"Unlinked", "Linked"}
        /\ IsBlocking(s) =>
            /\ ENABLED Rebind(s)
            /\ ENABLED Connect(s)
            /\ ENABLED SendTo(s)
            /\ ENABLED RecvFrom(s)
            /\ ENABLED SetFilters(s)
            /\ ENABLED Broadcast(s)
            /\ socks[s].link = "Linked" => ENABLED Read(s) /\ ENABLED Write(s)
        /\ IsAsync(s) /\ Idle(s) =>
            /\ ENABLED AsyncRebind(s)
            /\ ENABLED AsyncConnect(s)
            /\ ENABLED AsyncSendTo(s)
            /\ ENABLED AsyncRecvFrom(s)
            /\ ENABLED SetFilters(s)
            /\ ENABLED Broadcast(s)
            /\ socks[s].link = "Linked" =>
                   ENABLED PollRead(s) /\ ENABLED PollWrite(s)
    /\ call.op # "none" =>
        LET after == socks[call.sock].link
        IN  /\ call.op \in C4_OtherOps \cup {"open", "connect", "drop"}
            /\ call.op = "open" =>
                /\ call.linkBefore = "Unopened"
                /\ after = IF call.result.ok THEN "Unlinked" ELSE "Unopened"
            /\ call.op \in C4_OtherOps =>
                /\ call.linkBefore \in {"Unlinked", "Linked"}
                /\ after = call.linkBefore
            /\ call.op = "connect" =>
                /\ call.linkBefore \in {"Unlinked", "Linked"}
                /\ after = IF call.result.ok THEN "Linked" ELSE "Dropped"
            /\ call.op = "drop" => after = "Dropped"
            /\ call.linkBefore = "Linked" => after \in {"Linked", "Dropped"}

C4_Witness ==
    /\ call.op = "connect"
    /\ call.linkBefore = "Linked"
    /\ call.result.ok
    /\ socks[call.sock].link = "Linked"

\* C6: when the receive inside recv_from succeeds at the OS but the source
\* address it returned is not tagged AF_CAN, recv_from returns an error of
\* kind Other with the message "Invalid source address", and no byte count
\* and no source address; on the asynchronous socket the future completes
\* with that error and is not left waiting.
C6_InvalidSource ==
    (/\ call.op = "recv_from"
     /\ call.os = "ok"
     /\ call.osaddr.storage[1] + 256 * call.osaddr.storage[2] # 29) =>
        /\ ~call.result.ok
        /\ call.result.kind = "Other"
        /\ call.result.msg = "Invalid source address"
        /\ call.result.errno = ""
        /\ call.result.n = 0
        /\ call.result.src = <<>>
        /\ call.phase = "returned"
        /\ socks[call.sock].pending = "none"

C6_Witness ==
    /\ call.op = "recv_from"
    /\ call.flavor = "async"
    /\ call.os = "ok"
    /\ call.osaddr.storage[1] = 2
    /\ call.osaddr.storage[2] = 0
    /\ call.result.kind = "Other"
    /\ call.phase = "returned"

\* C7: set_filters makes exactly one setsockopt call, at level SOL_CAN_J1939
\* for option SO_J1939_FILTER.  For n > 0 filters it passes the n records in
\* the order given, with length n times the size of a record; for no filter
\* it passes a null pointer and length 0.  It succeeds exactly when the OS
\* accepts the call, and otherwise returns the OS error.
C7_SetFilters ==
    call.op = "set_filters" =>
        LET n == Len(call.arg)
        IN  /\ call.sys = <<"setsockopt">>
            /\ Len(call.opt) = 1
            /\ call.opt[1].level = 107
            /\ call.opt[1].name = 1
            /\ n = 0 =>
                /\ call.opt[1].null
                /\ call.opt[1].len = 0
                /\ call.opt[1].data = <<>>
            /\ n > 0 =>
                /\ ~call.opt[1].null
                /\ call.opt[1].len = n * 32
                /\ Len(call.opt[1].data) = n
                /\ \A i \in 1..n : call.opt[1].data[i] = call.arg[i]
            /\ call.result.ok <=> call.os = "ok"
            /\ ~call.result.ok => call.result.errno = call.os

C7_Witness ==
    /\ call.op = "set_filters"
    /\ Len(call.arg) = 2
    /\ call.arg[1] # call.arg[2]
    /\ call.opt[1].len = 64
    /\ call.result.ok

\* C8: on the asynchronous socket no send_to, recv_from, read or write
\* returns a WouldBlock error.  A step in which the system call ended with
\* EAGAIN leaves the operation suspended with the readiness of its direction
\* cleared; an operation that has returned has a successful result or an
\* error of another kind.
C8_WouldBlockMasked ==
    (/\ call.flavor = "async"
     /\ call.op \in {"send_to", "recv_from", "read", "write"}) =>
        /\ call.phase = "returned" =>
            /\ call.result.kind # "WouldBlock"
            /\ call.os # "EAGAIN"
            /\ socks[call.sock].pending = "none"
        /\ call.os = "EAGAIN" =>
            /\ call.phase = "suspended"
            /\ call.result = NoResult
            /\ socks[call.sock].pending = call.op
            /\ call.op \in {"recv_from", "read"} => ~socks[call.sock].ready_r
            /\ call.op \in {"send_to", "write"} => ~socks[call.sock].ready_w

C8_Witness ==
    /\ call.flavor = "async"
    /\ call.op = "read"
    /\ call.os = "EAGAIN"
    /\ call.phase = "suspended"
    /\ socks[call.sock].pending = "read"
    /\ ~socks[call.sock].ready_r

\* Bit i of the u64 whose 16-bit limbs, most significant first, are value.
C11_Bit(value, i) ==
    (value[4 - (i \div 16)] \div (2 ^ (i % 16))) % 2

\* The 8 little-endian bytes of that u64.
C11_LeBytes(value) ==
    <<value[4] % 256, value[4] \div 256, value[3] % 256, value[3] \div 256,
      value[2] % 256, value[2] \div 256, value[1] % 256, value[1] \div 256>>

\* C11: for a 64-bit value n, u64::from(Name::from(n)) is n and
\* Name::from(n).to_le_bytes() is the little-endian encoding of n; the Name
\* of 0 is Name::NO_NAME and no other is.  After a mutator, to_le_bytes and
\* u64::from still agree on the same 64 bits.
C11_NameRoundTrip ==
    /\ nameCall.op = "from" =>
        /\ u64_from_Name(name) = nameCall.value
        /\ Name_to_le_bytes(name) = C11_LeBytes(nameCall.value)
        /\ \A i \in 0..63 : name[i] <=> (C11_Bit(nameCall.value, i) = 1)
        /\ (nameCall.value = <<0, 0, 0, 0>>) <=> (name = NO_NAME)
    /\ nameCall.op = "into_u64" =>
        /\ \A i \in 0..63 : name[i] <=> (C11_Bit(nameCall.value, i) = 1)
    /\ nameCall.op = "to_le_bytes" =>
        /\ nameCall.value = C11_LeBytes(u64_from_Name(name))

C11_Witness ==
    /\ nameCall.op = "to_le_bytes"
    /\ nameOps = 0
    /\ nameCall.value = <<239, 205, 171, 137, 103, 69, 35, 1>>

\* The bits lo .. hi-1 of the u64 value, as a number.
RECURSIVE C12_Field(_, _, _)
C12_Field(value, lo, hi) ==
    IF lo >= hi THEN 0
    ELSE C11_Bit(value, lo) + 2 * C12_Field(value, lo + 1, hi)

\* C12: the accessors of Name::from(n) return the bits of n at the fixed
\* layout, and 0x9704033501000004 decodes to identity number 4, manufacturer
\* code 8, ECU instance 5, function instance 6, function 3, vehicle system
\* 2, vehicle system instance 7, industry group 1, arbitrary address capable.
C12_NameLayout ==
    nameCall.op = "from" =>
        LET n == nameCall.value
        IN  /\ identity_number(name) = C12_Field(n, 0, 21)
            /\ manufacturer_code(name) = C12_Field(n, 21, 32)
            /\ ecu_instance(name) = C12_Field(n, 32, 35)
            /\ function_instance(name) = C12_Field(n, 35, 40)
            /\ function(name) = C12_Field(n, 40, 48)
            /\ vehicle_system(name) = C12_Field(n, 49, 56)
            /\ vehicle_system_instance(name) = C12_Field(n, 56, 60)
            /\ industry_group(name) = C12_Field(n, 60, 63)
            /\ arbitrary_address_capable(name) <=> (C11_Bit(n, 63) = 1)
            /\ n = <<38660, 821, 256, 4>> =>
                /\ identity_number(name) = 4
                /\ manufacturer_code(name) = 8
                /\ ecu_instance(name) = 5
                /\ function_instance(name) = 6
                /\ function(name) = 3
                /\ vehicle_system(name) = 2
                /\ vehicle_system_instance(name) = 7
                /\ industry_group(name) = 1
                /\ arbitrary_address_capable(name)

C12_Witness ==
    /\ nameCall.op = "from"
    /\ nameCall.value = <<38660, 821, 256, 4>>
    /\ vehicle_system(name) = 2
    /\ arbitrary_address_capable(name)

\* C13: NameFilterMask::Full encodes to all 64 bits set, PgnFilterMask::Full
\* to 0x3FFFF, PgnFilterMask::Pdu1 to 0x3FF00 and AddrFilterMask::Full to
\* 0xFF; a Partial NAME or address mask encodes to itself and a Partial PGN
\* mask to its low 18 bits.
C13_MaskEncoding ==
    /\ "name" \in filterCall.parts =>
        /\ filterCall.nmask.kind = "Full" =>
               filter.name_mask = <<65535, 65535, 65535, 65535>>
        /\ filterCall.nmask.kind = "Partial" =>
               filter.name_mask = filterCall.nmask.mask
    /\ "pgn" \in filterCall.parts =>
        /\ filterCall.pmask.kind = "Full" => filter.pgn_mask = 262143
        /\ filterCall.pmask.kind = "Pdu1" => filter.pgn_mask = 261888
        /\ filterCall.pmask.kind = "Partial" =>
               filter.pgn_mask = filterCall.pmask.mask % 262144
    /\ "addr" \in filterCall.parts =>
        /\ filterCall.amask.kind = "Full" => filter.addr_mask = 255
        /\ filterCall.amask.kind = "Partial" =>
               filter.addr_mask = filterCall.amask.mask

C13_Witness ==
    /\ filterCall.op = "new"
    /\ filterCall.nmask.kind = "Full"
    /\ filterCall.pmask = Partial(524287)
    /\ filter.pgn_mask = 262143
    /\ filterCall.amask = Partial(15)
    /\ filter.addr_mask = 15

\* C14: a J1939Filter made from one partial filter carries that filter's
\* value and mask and has the values and masks of the other two identifiers
\* zero; J1939Filter::new carries the value and mask of all three partial
\* filters.  The NAME and address values are the ones the partial filter
\* was given.
C14_PartialFilters ==
    /\ filterCall.op \in {"new", "from"} =>
        /\ "name" \in filterCall.parts =>
            /\ filter.name = filterCall.name_filter.name
            /\ filter.name_mask = filterCall.name_filter.mask
            /\ filter.name = filterCall.name
        /\ "name" \notin filterCall.parts =>
            /\ filter.name = <<0, 0, 0, 0>>
            /\ filter.name_mask = <<0, 0, 0, 0>>
        /\ "pgn" \in filterCall.parts =>
            /\ filter.pgn = filterCall.pgn_filter.pgn
            /\ filter.pgn_mask = filterCall.pgn_filter.mask
        /\ "pgn" \notin filterCall.parts =>
            /\ filter.pgn = 0
            /\ filter.pgn_mask = 0
        /\ "addr" \in filterCall.parts =>
            /\ filter.addr = filterCall.addr_filter.addr
            /\ filter.addr_mask = filterCall.addr_filter.mask
            /\ filter.addr = filterCall.addr
        /\ "addr" \notin filterCall.parts =>
            /\ filter.addr = 0
            /\ filter.addr_mask = 0
    /\ filterCall.op = "new" => filterCall.parts = {"name", "pgn", "addr"}
    /\ filterCall.op = "from" => Cardinality(filterCall.parts) = 1

C14_Witness ==
    /\ filterCall.op = "from"
    /\ filterCall.parts = {"pgn"}
    /\ filter.pgn = 126980
    /\ filter.pgn_mask = 261888
    /\ filter.addr_mask = 0
    /\ filter.name_mask = <<0, 0, 0, 0>>

\* C15: the filter built from PgnFilter::new(p, m) records p in its wire
\* form, with the PDU-specific byte zero when p is PDU1 (0x21FF is recorded
\* as 0x2100), and a mask of at most 18 bits.
C15_PgnFilterWireForm ==
    "pgn" \in filterCall.parts =>
        LET p == filterCall.pgn
            format == (p \div 256) % 256
        IN  /\ filter.pgn = IF format <= 239 THEN p - (p % 256) ELSE p
            /\ p = 8703 => filter.pgn = 8448
            /\ filter.pgn_mask <= 262143

C15_Witness ==
    /\ filterCall.op = "from"
    /\ filterCall.pgn = 8703
    /\ filterCall.pmask = Full
    /\ filter.pgn = 8448
    /\ filter.pgn_mask = 262143

\* C16: the three bytes of Pgn::to_le_bytes are the low three little-endian
\* bytes of u32::from(p), the wire form of p, so the first byte is zero
\* whenever p is PDU1.
C16_LeBytesWireForm ==
    pgnCall.op = "to_le_bytes" =>
        LET p == pgnCall.before
            format == (p \div 256) % 256
            wire == IF format <= 239 THEN p - (p % 256) ELSE p
        IN  /\ pgnCall.a = wire % 256
            /\ pgnCall.b = (wire \div 256) % 256
            /\ pgnCall.c = (wire \div 65536) % 256
            /\ format <= 239 => pgnCall.a = 0

\* What Pgn::to_le_bytes returns instead: the low three little-endian bytes
\* of the stored 18-bit value, PDU-specific byte included.
C16_LeBytesStoredForm ==
    pgnCall.op = "to_le_bytes" =>
        /\ pgnCall.a = pgnCall.before % 256
        /\ pgnCall.b = (pgnCall.before \div 256) % 256
        /\ pgnCall.c = (pgnCall.before \div 65536) % 256

C16_Witness ==
    /\ pgnCall.op = "to_le_bytes"
    /\ pgnCall.before = 61183
    /\ <<pgnCall.a, pgnCall.b, pgnCall.c>> = <<255, 238, 0>>

\* C17: every J1939SockAddr made by new, from_parts, default, the setters or
\* a successful decode carries the AF_CAN family tag, and the address made
\* by new(ifindex) or default() has NAME 0, PGN 0x40000 and address 0xFF in
\* its wire fields.
C17_FamilyAndSentinels ==
    /\ Len(sockaddr) = 24
    /\ sockaddr[1] = 29
    /\ sockaddr[2] = 0
    /\ addrCall.op \in {"new", "default"} =>
        /\ SubSeq(sockaddr, 9, 16) = <<0, 0, 0, 0, 0, 0, 0, 0>>
        /\ SubSeq(sockaddr, 17, 20) = <<0, 0, 4, 0>>
        /\ sockaddr[21] = 255

C17_Witness ==
    /\ addrCall.op = "new"
    /\ SubSeq(sockaddr, 5, 8) = <<3, 0, 0, 0>>
    /\ SubSeq(sockaddr, 17, 20) = <<0, 0, 4, 0>>
    /\ sockaddr[21] = 255

\* C18: the container made from a J1939SockAddr a reports the length of the
\* CAN address layout (24), starts with the bytes of a and is zero after
\* them; decoding that container succeeds and gives an address with the
\* bytes of a.
C18_ContainerRoundTrip ==
    /\ addrCall.op = "into" =>
        /\ addrCall.container.len = 24
        /\ Len(addrCall.container.storage) = 128
        /\ SubSeq(addrCall.container.storage, 1, 24) = addrCall.before
        /\ \A i \in 25..128 : addrCall.container.storage[i] = 0
        /\ sockaddr = addrCall.before
    /\ (/\ addrCall.op = "try_from"
        /\ addrCall.container = SockAddr_from(addrCall.before)) =>
        /\ addrCall.ok
        /\ sockaddr = addrCall.before

C18_Witness ==
    /\ addrCall.op = "try_from"
    /\ addrCall.container = SockAddr_from(addrCall.before)
    /\ addrCall.ok
    /\ SubSeq(sockaddr, 5, 8) = <<3, 0, 0, 0>>
    /\ SubSeq(sockaddr, 17, 20) = <<0, 33, 0, 0>>
    /\ sockaddr[21] = 2

C20_Options ==
    {"broadcast", "nonblocking", "read_timeout", "write_timeout", "promisc"}

C20_ReadBack(sock, x) ==
    CASE x = "broadcast" -> broadcast(sock)
      [] x = "nonblocking" -> nonblocking(sock)
      [] x = "read_timeout" -> read_timeout(sock)
      [] x = "write_timeout" -> write_timeout(sock)
      [] x = "promisc" -> promisc(sock)

\* One step of the read-back rule; exact says for which setter arguments the
\* value read back has to be the argument itself.
C20_Step(exact(_, _)) ==
    LET s == call'.sock
    IN  (/\ s \in Sockets
         /\ call'.phase = "returned"
         /\ call'.result.ok) =>
            \A x \in C20_Options :
                /\ (call'.op = "set_" \o x /\ exact(x, call'.arg)) =>
                       C20_ReadBack(socks'[s], x) = call'.arg
                /\ call'.op \in {"set_" \o y : y \in C20_Options \ {x}} =>
                       C20_ReadBack(socks'[s], x) = C20_ReadBack(socks[s], x)
                /\ call'.op = x =>
                       /\ call'.result.val = C20_ReadBack(socks[s], x)
                       /\ socks' = socks

C20_Any(x, arg) == TRUE

\* A boolean, None, or a duration of at least a microsecond and a whole
\* number of microseconds.
C20_WholeMicros(x, arg) ==
    x \in {"read_timeout", "write_timeout"} =>
        ~arg.some \/ (arg.nanos >= 1000 /\ arg.nanos % 1000 = 0)

\* C20: for broadcast, non-blocking, read timeout, write timeout and
\* promiscuous mode, the getter returns the value passed to the most recent
\* successful setter of the same option (None clears a timeout), and a
\* setter of one option does not change what the getter of another returns.
\* Stated step by step: a successful setter makes the value read back its
\* argument, a successful setter of another option leaves the value read
\* back as it was, and a successful getter returns the value read back.
C20_OptionReadBack == [][C20_Step(C20_Any)]_vars

\* The same rule for booleans, None and durations that are a positive whole
\* number of microseconds.
C20_ReadBackWholeMicros == [][C20_Step(C20_WholeMicros)]_vars

C20_Witness ==
    /\ call.op = "set_read_timeout"
    /\ call.result.ok
    /\ call.arg = Some(500)
    /\ read_timeout(socks[call.sock]) = None

\* C21: set_promisc(v) and promisc() write and read SO_J1939_PROMISC at the
\* level SOL_CAN_J1939 (107): a successful set_promisc(v) makes the J1939
\* promiscuous flag of the socket v and changes no other option, and a
\* successful promisc() returns that flag.
C21_PromiscOption ==
    [][LET s == call'.sock
       IN  (/\ s \in Sockets
            /\ call'.phase = "returned"
            /\ call'.result.ok) =>
               /\ call'.op = "set_promisc" =>
                   /\ call'.opt[1].level = 107
                   /\ call'.opt[1].name = 2
                   /\ socks'[s].opts.j1939_promisc = call'.arg
                   /\ socks'[s].opts.reuseaddr = socks[s].opts.reuseaddr
                   /\ socks'[s].opts.broadcast = socks[s].opts.broadcast
                   /\ socks'[s].opts.rcvtimeo = socks[s].opts.rcvtimeo
                   /\ socks'[s].opts.sndtimeo = socks[s].opts.sndtimeo
                   /\ socks'[s].nonblock = socks[s].nonblock
               /\ call'.op = "promisc" =>
                   /\ call'.opt[1].level = 107
                   /\ call'.opt[1].name = 2
                   /\ call'.result.val = socks[s].opts.j1939_promisc]_vars

\* What set_promisc(true) does instead: the option 2 of SOL_SOCKET (level 1)
\* is SO_REUSEADDR, which is set, and the J1939 flag stays clear.
C21_Witness ==
    /\ call.op = "set_promisc"
    /\ call.result.ok
    /\ call.arg = TRUE
    /\ call.opt[1].level = 1
    /\ call.opt[1].name = 2
    /\ socks[call.sock].opts.reuseaddr
    /\ ~socks[call.sock].opts.j1939_promisc

\* C22: every live asynchronous socket is in non-blocking mode: right after
\* AsyncJ1939Socket::open and after any sequence of connect, rebind, send,
\* receive and SocketOptions calls on it.
C22_AsyncNonblocking ==
    \A s \in Sockets : IsAsync(s) => socks[s].nonblock

\* An asynchronous socket is non-blocking after open, and only a successful
\* set_nonblocking changes the mode of a live asynchronous socket.
C22_OnlySetNonblocking ==
    [][\A s \in Sockets :
           /\ (~IsAsync(s) /\ IsAsync(s)') => socks'[s].nonblock
           /\ (/\ IsAsync(s)
               /\ IsAsync(s)'
               /\ socks'[s].nonblock # socks[s].nonblock) =>
                  /\ call'.op = "set_nonblocking"
                  /\ call'.sock = s
                  /\ call'.result.ok]_vars

C22_Witness ==
    /\ call.op = "set_nonblocking"
    /\ call.flavor = "async"
    /\ call.arg = FALSE
    /\ call.result.ok
    /\ IsAsync(call.sock)
    /\ ~socks[call.sock].nonblock

\* The operations both socket flavours offer.
C24_Ops ==
    {"open", "rebind", "connect", "send_to", "recv_from", "read", "write"}

\* The calls only the asynchronous adapter makes: set_nonblocking's fcntl
\* and the registration with the reactor.
C24_AdapterCalls == {"fcntl", "epoll_ctl"}

\* Whether the call c failed in a step of the adapter itself.
C24_AdapterFailed(c) ==
    /\ c.os \notin {"", "ok"}
    /\ \E i \in DOMAIN c.sys :
        /\ c.sys[i] \in C24_AdapterCalls
        /\ \A j \in DOMAIN c.sys : j > i => c.sys[j] = "close"

\* What an operation of the blocking socket does when its system calls end
\* with os: the result it returns and the link state it leaves.
C24_AsBlocking(c, os) ==
    /\ os = "ok" =>
        IF c.op = "recv_from"
             /\ c.osaddr.storage[1] + 256 * c.osaddr.storage[2] # 29
          THEN /\ ~c.result.ok
               /\ c.result.kind = "Other"
               /\ c.result.msg = "Invalid source address"
          ELSE /\ c.result.ok
               /\ c.op = "recv_from" =>
                      c.result.src = SubSeq(c.osaddr.storage, 1, 24)
    /\ os # "ok" =>
        /\ ~c.result.ok
        /\ c.result.errno = os
    /\ socks[c.sock].link =
          CASE c.op = "connect" -> (IF os = "ok" THEN "Linked" ELSE "Dropped")
            [] c.op = "open" -> (IF os = "ok" THEN "Unlinked" ELSE "Unopened")
            [] OTHER -> c.linkBefore

\* C24: every asynchronous open, rebind, connect, send_to, recv_from, read
\* or write that completes returns the result and leaves the link state the
\* blocking operation has for the same outcome of the underlying system
\* calls; the one difference is that EAGAIN suspends the asynchronous
\* operation.
C24_SameAsBlocking ==
    (call.op \in C24_Ops /\ call.sock \in Sockets) =>
        /\ call.phase = "returned" =>
            /\ call.sys # <<>>
            /\ C24_AsBlocking(call,
                   IF C24_AdapterFailed(call) THEN "ok" ELSE call.os)
        /\ call.phase = "suspended" =>
            /\ call.flavor = "async"
            /\ call.os \in {"", "EAGAIN"}
            /\ socks[call.sock].link = call.linkBefore

\* C24 with the adapter's own failures set apart: a completed operation
\* whose failure, if any, is that of an underlying system call behaves as
\* the blocking one; an operation that fails in set_nonblocking or in the
\* registration returns that error and drops the socket; an operation whose
\* wait for readiness fails returns that error without a system call.
C24_SameAsBlockingButAdapter ==
    (call.op \in C24_Ops /\ call.sock \in Sockets) =>
        /\ (/\ call.phase = "returned"
            /\ call.sys # <<>>
            /\ ~C24_AdapterFailed(call)) => C24_AsBlocking(call, call.os)
        /\ (call.phase = "returned" /\ C24_AdapterFailed(call)) =>
            /\ call.op \in {"open", "connect"}
            /\ ~call.result.ok
            /\ call.result.errno = call.os
            /\ socks[call.sock].link =
                  IF call.op = "open" THEN "Unopened" ELSE "Dropped"
        /\ (call.phase = "returned" /\ call.sys = <<>>) =>
            /\ call.flavor = "async"
            /\ call.op \in {"send_to", "recv_from", "read", "write"}
            /\ ~call.result.ok
            /\ call.result.kind = "Other"
            /\ socks[call.sock].link = call.linkBefore
        /\ call.phase = "suspended" =>
            /\ call.flavor = "async"
            /\ call.os \in {"", "EAGAIN"}
            /\ socks[call.sock].link = call.linkBefore

C24_Witness ==
    /\ call.op = "recv_from"
    /\ call.flavor = "async"
    /\ call.phase = "returned"
    /\ call.os = "ok"
    /\ call.result.ok
    /\ call.result.src = SubSeq(call.osaddr.storage, 1, 24)
    /\ socks[call.sock].link = "Linked"

\* The largest number of registrations a descriptor has while the system
\* calls sys are made one after the other, starting from n registrations.
RECURSIVE C25_Peak(_, _)
C25_Peak(sys, n) ==
    IF sys = <<>> THEN n
    ELSE LET m == CASE Head(sys) = "epoll_ctl" -> n + 1
                    [] Head(sys) = "epoll_ctl_del" -> n - 1
                    [] OTHER -> n
             rest == C25_Peak(Tail(sys), m)
         IN  IF rest > n THEN rest ELSE n

\* C25: AsyncJ1939Socket::connect removes the readiness registration before
\* it makes the new one: a live asynchronous socket has exactly one
\* registration of its descriptor in every state and never two while a call
\* runs, and the Linked socket a successful connect returns owns the
\* descriptor of the socket it consumed.
C25_OneRegistration ==
    [][/\ \A s \in Sockets :
              socks'[s].regs = IF IsAsync(s)' THEN 1 ELSE 0
       /\ call'.sock \in Sockets =>
              /\ C25_Peak(call'.sys, socks[call'.sock].regs) <= 1
              /\ (call'.op = "connect" /\ call'.result.ok) =>
                     /\ socks'[call'.sock].fd = socks[call'.sock].fd
                     /\ socks'[call'.sock].fd # 0]_vars

C25_Witness ==
    /\ call.op = "connect"
    /\ call.flavor = "async"
    /\ call.result.ok
    /\ call.sys = <<"epoll_ctl_del", "connect", "epoll_ctl">>
    /\ socks[call.sock].regs = 1
    /\ socks[call.sock].fd = 3

\* C26: connect consumes the socket value: when connect(2) or, for the
\* asynchronous socket, the registration that follows it fails, the caller
\* gets the error and nothing else, the socket value is gone with its
\* descriptor closed, and no later operation is made on it.
C26_ConnectConsumes ==
    [][\A s \in Sockets :
           /\ (/\ call'.op = "connect"
               /\ call'.sock = s
               /\ ~call'.result.ok) =>
                  /\ call'.phase = "returned"
                  /\ call'.result.errno = call'.os
                  /\ call'.result.n = 0
                  /\ call'.result.src = <<>>
                  /\ call'.sys[Len(call'.sys)] = "close"
                  /\ socks'[s].link = "Dropped"
                  /\ socks'[s].fd = 0
                  /\ socks'[s].regs = 0
           /\ socks[s].link = "Dropped" =>
                  /\ socks'[s] = socks[s]
                  /\ call'.sock # s]_vars

C26_Witness ==
    /\ call.op = "connect"
    /\ call.flavor = "async"
    /\ call.linkBefore = "Unlinked"
    /\ call.sys = <<"epoll_ctl_del", "connect", "epoll_ctl", "close">>
    /\ call.result.errno = "ENETDOWN"
    /\ socks[call.sock].link = "Dropped"
    /\ socks[call.sock].fd = 0

\* The PGN a J1939SockAddr gives back for the PGN p it was given: p with the
\* PDU-specific byte cleared when p is PDU1, p itself when stored is FALSE.
C27_PgnRead(p, stored) ==
    IF stored /\ (p \div 256) % 256 <= 239 THEN p - (p % 256) ELSE p

\* The read-back rule of from_parts and the setters, for a PGN read back as
\* it is stored (stored) or as it was given.
C27_ReadBack(stored) ==
    LET c == addrCall
        nm == u64_from_Name(J1939SockAddr_name(sockaddr))
        pg == J1939SockAddr_pgn(sockaddr)
        ad == u8_from_Addr(J1939SockAddr_addr(sockaddr))
    IN  /\ c.op = "from_parts" =>
            /\ nm = c.name
            /\ pg = C27_PgnRead(c.pgn, stored)
            /\ ad = c.addr
            /\ can_ifindex(sockaddr) = c.ifindex
            /\ can_family(sockaddr) = 29
        /\ c.op \in {"set_name", "set_pgn", "set_addr"} =>
            /\ nm = IF c.op = "set_name" THEN c.name
                    ELSE u64_from_Name(J1939SockAddr_name(c.before))
            /\ pg = IF c.op = "set_pgn" THEN C27_PgnRead(c.pgn, stored)
                    ELSE J1939SockAddr_pgn(c.before)
            /\ ad = IF c.op = "set_addr" THEN c.addr
                    ELSE u8_from_Addr(J1939SockAddr_addr(c.before))
            /\ can_ifindex(sockaddr) = can_ifindex(c.before)
            /\ can_family(sockaddr) = can_family(c.before)

\* C27: from_parts(i, n, p, a) gives n from name(), p from pgn() and a from
\* addr(); set_name, set_pgn and set_addr are read back unchanged by the
\* matching getter and leave the other two fields, the interface index and
\* the family tag as they were.
C27_PartsReadBack == C27_ReadBack(FALSE)

\* C27 with the PGN read back in its wire form: pgn() gives p with the
\* PDU-specific byte cleared when p is PDU1.
C27_PartsReadBackWire == C27_ReadBack(TRUE)

C27_Witness ==
    /\ addrCall.op = "set_pgn"
    /\ addrCall.pgn = 8703
    /\ J1939SockAddr_pgn(sockaddr) = 8448
    /\ can_ifindex(sockaddr) = 3
    /\ j1939_addr(sockaddr) = 2

\* C28: two J1939SockAddr values that compare equal have the same wire bytes
\* and so the same generic container; in particular new(i) and
\* from_parts(i, Name::NO_NAME, Pgn::NO_PGN, Addr::NO_ADDR) compare equal
\* and have the same wire bytes.
C28_EqualSameBytes ==
    addrCall.op = "eq" =>
        /\ addrCall.ok =>
            /\ addrCall.before = addrCall.other
            /\ SockAddr_from(addrCall.before) = SockAddr_from(addrCall.other)
        /\ \A i \in IfIndices :
            (/\ addrCall.before = J1939SockAddr_new(i)
             /\ addrCall.other =
                   J1939SockAddr_from_parts(i, NO_NAME, NO_PGN, NO_ADDR)) =>
                /\ addrCall.ok
                /\ addrCall.before = addrCall.other

\* What the comparison decides: that the family tag, the interface index,
\* the NAME, the address and the low 18 bits of the PGN field agree.
C28_EqualFields ==
    addrCall.op = "eq" =>
        LET a == addrCall.before
            b == addrCall.other
            pgn18(x) == (x[17] + 256 * x[18] + 65536 * x[19]) % 262144
        IN  addrCall.ok <=>
                /\ SubSeq(a, 1, 2) = SubSeq(b, 1, 2)
                /\ SubSeq(a, 5, 16) = SubSeq(b, 5, 16)
                /\ pgn18(a) = pgn18(b)
                /\ a[21] = b[21]

C28_Witness ==
    /\ addrCall.op = "eq"
    /\ addrCall.ok
    /\ addrCall.before = J1939SockAddr_new(3)
    /\ addrCall.other = J1939SockAddr_from_parts(3, NO_NAME, NO_PGN, NO_ADDR)
    /\ SubSeq(addrCall.before, 17, 20) = <<0, 0, 4, 0>>
    /\ SubSeq(addrCall.other, 17, 20) = <<0, 0, 0, 0>>

\* C29: a Pgn is determined by its three field accessors: for P made from
\* an 18-bit value, Pgn::new(P.data_page(), P.pdu_format(),
\* P.pdu_specific()) is P.
C29_AccessorsDetermine ==
    pgnCall.op = "rebuild" => pgn = pgnCall.before

\* C29 for the 17 bits the accessors cover: the Pgn built from the three
\* accessors of P is P with bit 17 cleared, and is P when P is below 0x20000.
C29_AccessorsDetermineLow17 ==
    pgnCall.op = "rebuild" =>
        /\ pgn = pgnCall.before % 131072
        /\ pgnCall.before < 131072 => pgn = pgnCall.before
        /\ pgnCall.a = (pgnCall.before \div 256) % 256
        /\ pgnCall.b = pgnCall.before % 256
        /\ pgnCall.flag <=> (pgnCall.before \div 65536) % 2 = 1

C29_Witness ==
    /\ pgnCall.op = "rebuild"
    /\ pgnCall.before = 258052
    /\ pgnCall.flag
    /\ pgnCall.a = 240
    /\ pgnCall.b = 4
    /\ pgn = 126980

\* The direction an asynchronous stream operation waits for.
C30_Dir(op) == IF op = "read" THEN "r" ELSE "w"

\* A step that is a poll of poll_read or poll_write on s with no readiness
\* cached for its direction.
C30_UnreadyPoll(s) ==
    /\ IsAsync(s)
    /\ call'.sock = s
    /\ call'.op \in {"read", "write"}
    /\ ~IsReady(s, C30_Dir(call'.op))

\* A suspended poll_read or poll_write returns Ready in the end, unless its
\* future is dropped first.
C30_Completes ==
    \A s \in Sockets : \A op \in {"read", "write"} :
        (socks[s].pending = op)
            ~> (/\ call.sock = s
                /\ call.op \in {op, "cancel"}
                /\ call.phase = "returned")

\* C30: an asynchronous read or write on a Linked socket completes under
\* fairness, and whenever readiness has not fired the poll returns Pending
\* without attempting the underlying operation.
C30_PollCompletes ==
    /\ C30_Completes
    /\ [][\A s \in Sockets :
            C30_UnreadyPoll(s) =>
                /\ call'.sys = <<>>
                /\ call'.phase = "suspended"]_vars

\* C30 with the failure of the readiness wait: a poll with no readiness
\* cached attempts no system call, and returns Pending or the error of
\* awaiting readiness.
C30_PollCompletesOrGone ==
    /\ C30_Completes
    /\ [][\A s \in Sockets :
            C30_UnreadyPoll(s) =>
                /\ call'.sys = <<>>
                /\ \/ call'.phase = "suspended" /\ socks'[s].pending = call'.op
                   \/ /\ call'.phase = "returned"
                      /\ call'.result = RuntimeShutdown
                      /\ socks'[s].pending = "none"]_vars

\* A read that was suspended, was attempted again after readiness and then
\* transferred a datagram.
C30_Witness ==
    /\ call.op = "read"
    /\ call.flavor = "async"
    /\ call.phase = "returned"
    /\ call.sys = <<"read">>
    /\ call.result.ok
    /\ socks[call.sock].ready_r

=============================================================================
